---------------------------- MODULE Spec2Model ----------------------------
(***************************************************************************)
(* Switching state-space filter / smoother of                              *)
(* replay_trajectory_classification (core.py): the causal forward pass and *)
(* the acausal backward pass, in the multi-regime form (_causal_classify,  *)
(* _acausal_classify) and the single-regime form (_causal_decode,          *)
(* _acausal_decode).                                                       *)
(*                                                                         *)
(* Floating-point values are modelled as extended non-negative rationals:  *)
(* a value is a pair <<n, d>> in lowest terms, with <<0, 0>> standing for  *)
(* NaN and <<1, 0>> for +inf.  Arithmetic follows IEEE-754 on the special  *)
(* values (NaN absorbs, 0 * inf = NaN, x / 0 = inf, 0 / 0 = NaN, as numba  *)
(* gives with error_model='numpy'); rounding is not modelled.              *)
(***************************************************************************)
EXTENDS Integers, Sequences, FiniteSets, TLC

(***************************************************************************)
(* Bounds of the model.                                                    *)
(***************************************************************************)
\* largest n_time of a likelihood array
MaxTime == 3
\* a backward step is taken only while the denominators of its operands are
\* at most MaxDen, which keeps the exact arithmetic within TLC's integers
MaxDen == 20

(***************************************************************************)
(* Array shapes.  The grid has three bins, of which the last may be        *)
(* exterior; the classify functions run with two regimes.                  *)
(***************************************************************************)
Bins == {0, 1, 2}
States == {0, 1}
NBins == Cardinality(Bins)
NStates == Cardinality(States)
LastBin == NBins - 1

(***************************************************************************)
(* Extended rational arithmetic                                            *)
(***************************************************************************)
RECURSIVE Gcd(_, _)
Gcd(a, b) == IF b = 0 THEN a ELSE Gcd(b, a % b)

NaN == <<0, 0>>
Inf == <<1, 0>>
Zero == <<0, 1>>
One == <<1, 1>>

\* the rational n / d (n >= 0, d > 0) in lowest terms
Q(n, d) == LET g == Gcd(n, d) IN <<n \div g, d \div g>>

IsNaN(x) == x = NaN
IsInf(x) == x = Inf
IsFinite(x) == x[2] # 0

\* x + y on float values
Add(x, y) ==
    IF IsNaN(x) \/ IsNaN(y) THEN NaN
    ELSE IF IsInf(x) \/ IsInf(y) THEN Inf
    ELSE IF x = Zero THEN y
    ELSE IF y = Zero THEN x
    ELSE LET g == Gcd(x[2], y[2])
         IN Q(x[1] * (y[2] \div g) + y[1] * (x[2] \div g),
              (x[2] \div g) * y[2])

\* the product of two rationals, cancelling before multiplying
MulFinite(x, y) ==
    IF x = Zero \/ y = Zero THEN Zero
    ELSE IF x = One THEN y
    ELSE IF y = One THEN x
    ELSE
    LET g1 == Gcd(x[1], y[2])
        g2 == Gcd(y[1], x[2])
    IN IF g1 = 0 \/ g2 = 0 THEN Zero
       ELSE <<(x[1] \div g1) * (y[1] \div g2), (x[2] \div g2) * (y[2] \div g1)>>

\* x * y on float values: NaN absorbs, also against 0; 0 * inf is NaN
Mul(x, y) ==
    IF IsNaN(x) \/ IsNaN(y) THEN NaN
    ELSE IF IsInf(x) \/ IsInf(y)
         THEN (IF x = Zero \/ y = Zero THEN NaN ELSE Inf)
    ELSE MulFinite(x, y)

\* x / y on float values with error_model='numpy': no exception is raised
Div(x, y) ==
    IF IsNaN(x) \/ IsNaN(y) THEN NaN
    ELSE IF IsInf(y) THEN (IF IsInf(x) THEN NaN ELSE Zero)
    ELSE IF y = Zero THEN (IF x = Zero THEN NaN ELSE Inf)
    ELSE IF IsInf(x) THEN Inf
    ELSE MulFinite(x, <<y[2], y[1]>>)

\* the sum of f over the finite index set S, in float arithmetic
RECURSIVE SumOver(_, _)
SumOver(S, f) ==
    IF S = {} THEN Zero
    ELSE LET i == CHOOSE j \in S : TRUE
         IN Add(f[i], SumOver(S \ {i}, f))

\* np.nansum of a vector: NaN entries count as zero
NanSum(S, f) == SumOver(S, [i \in S |-> IF IsNaN(f[i]) THEN Zero ELSE f[i]])

(***************************************************************************)
(* Dense linear algebra on vectors [b \in Bins] and matrices [b][b2]       *)
(***************************************************************************)
\* M.T
Transpose(M) == [b \in Bins |-> [b2 \in Bins |-> M[b2][b]]]

\* c * M, a scalar times a matrix
Scale(c, M) == [b \in Bins |-> [b2 \in Bins |-> Mul(c, M[b][b2])]]

\* M @ v: every entry sums over all bins, so a NaN in v reaches every entry
MatVec(M, v) ==
    [b \in Bins |-> SumOver(Bins, [b2 \in Bins |-> Mul(M[b][b2], v[b2])])]

\* v @ M, a row vector times a matrix
VecMat(v, M) ==
    [b \in Bins |-> SumOver(Bins, [b2 \in Bins |-> Mul(v[b2], M[b2][b])])]

\* elementwise product and sum of (n_states, n_bins) arrays
Times2(x, y) == [s \in DOMAIN x |-> [b \in Bins |-> Mul(x[s][b], y[s][b])]]
Plus2(x, y) == [s \in DOMAIN x |-> [b \in Bins |-> Add(x[s][b], y[s][b])]]
\* elementwise product of (n_bins,) arrays
Times1(x, y) == [b \in Bins |-> Mul(x[b], y[b])]

\* np.zeros of shape (n_bins,) and (n_states, n_bins)
Zeros1 == [b \in Bins |-> Zero]
Zeros2 == [s \in States |-> Zeros1]

\* an intermediate array held by value (the array x itself): the comparison
\* makes TLC evaluate every entry once instead of at each use
Array1(x) == IF x = Zeros1 THEN Zeros1 ELSE x
Array2(x) == IF x = Zeros2 THEN Zeros2 ELSE x

(***************************************************************************)
(* core.py: normalize_to_probability                                       *)
(***************************************************************************)
\* np.nansum over a whole (n_states, n_bins) array
NanSum2(x) == SumOver(DOMAIN x, [s \in DOMAIN x |-> NanSum(Bins, x[s])])

\* np.spacing(1), the stabilising constant of the smoother's ratio.  Its
\* value 2^-52 is outside TLC's integers; the model takes the positive
\* rational 1/4, and reads nothing from it but that it is positive and the
\* same in numerator and denominator.
Eps == Q(1, 4)

\* as normalize_to_probability, with np.nan_to_num on the result
normalize_to_probability_nan_to_num(distribution) ==
    LET d == Array2(distribution)
        total == NanSum2(d)
    IN [s \in DOMAIN d |-> [b \in Bins |->
           IF IsNaN(d[s][b]) THEN Zero ELSE Div(d[s][b], total)]]

\* as normalize_to_probability, returning the flat distribution when the
\* sum is zero
normalize_to_probability_default(distribution) ==
    LET d == Array2(distribution)
        total == NanSum2(d)
    IN [s \in DOMAIN d |-> [b \in Bins |->
           IF total = Zero THEN Q(1, NStates * NBins)
           ELSE Div(d[s][b], total)]]

\* distribution / np.nansum(distribution), shape (n_states, n_bins);
\* a NaN entry stays NaN, a zero sum gives 0 / 0 = NaN and x / 0 = inf
normalize_to_probability(distribution) ==
    LET d == Array2(distribution)
        total == NanSum2(d)
    IN [s \in DOMAIN d |-> [b \in Bins |-> Div(d[s][b], total)]]

\* the same function on a (n_bins,) array
normalize_to_probability_1d(distribution) ==
    LET d == Array1(distribution)
        total == NanSum(Bins, d)
    IN [b \in Bins |-> Div(d[b], total)]

(***************************************************************************)
(* core.py: _causal_classify                                               *)
(***************************************************************************)
\* posterior[0] = normalize_to_probability(initial_conditions * likelihood[0])
causal_classify_initial(ic, lik) ==
    normalize_to_probability(Times2(ic, lik[0]))

\* as causal_classify_prior, reading discrete[state_k, state_k_1] and
\* continuous[state_k, state_k_1] (target regime first)
causal_classify_prior_swapped(cont, disc, prev) ==
    [state_k \in DOMAIN prev |->
        LET term == [state_k_1 \in DOMAIN prev |->
                MatVec(Scale(disc[state_k][state_k_1],
                             Transpose(cont[state_k][state_k_1])),
                       prev[state_k_1])]
        IN [b \in Bins |->
               SumOver(DOMAIN prev, [state_k_1 \in DOMAIN prev |-> term[state_k_1][b]])]]

\* the double loop over state_k, state_k_1:
\*   prior[state_k] += discrete[state_k_1, state_k] *
\*       continuous[state_k_1, state_k].T @ posterior[k - 1, state_k_1]
causal_classify_prior(cont, disc, prev) ==
    [state_k \in DOMAIN prev |->
        LET term == [state_k_1 \in DOMAIN prev |->
                MatVec(Scale(disc[state_k_1][state_k],
                             Transpose(cont[state_k_1][state_k])),
                       prev[state_k_1])]
        IN [b \in Bins |->
               SumOver(DOMAIN prev, [state_k_1 \in DOMAIN prev |-> term[state_k_1][b]])]]

\* as causal_classify_step, reading the likelihood one time step ahead
causal_classify_step_lookahead(cont, disc, lik, post, k) ==
    normalize_to_probability(
        Times2(causal_classify_prior(cont, disc, post[k - 1]),
               lik[IF k + 1 \in DOMAIN lik THEN k + 1 ELSE k]))

\* as causal_classify_step, without the likelihood factor
causal_classify_step_prior_only(cont, disc, lik, post, k) ==
    normalize_to_probability(causal_classify_prior(cont, disc, post[k - 1]))

\* posterior[k] = normalize_to_probability(prior * likelihood[k]), k >= 1
causal_classify_step(cont, disc, lik, post, k) ==
    normalize_to_probability(
        Times2(causal_classify_prior(cont, disc, post[k - 1]), lik[k]))

\* posterior[t] of _causal_classify(ic, cont, disc, lik), the loop unrolled
RECURSIVE causal_classify_at(_, _, _, _, _)
causal_classify_at(ic, cont, disc, lik, t) ==
    IF t = 0 THEN causal_classify_initial(ic, lik)
    ELSE causal_classify_step(cont, disc, lik,
            [u \in {t - 1} |-> Array2(causal_classify_at(ic, cont, disc, lik, t - 1))],
            t)

(***************************************************************************)
(* core.py: _acausal_classify                                              *)
(***************************************************************************)
\* as acausal_classify_initial, seeding the last index from causal[0]
acausal_classify_initial_first(causal, n) ==
    [t \in 0 .. (n - 1) |-> IF t = n - 1 THEN causal[0] ELSE Zeros2]

\* acausal_posterior = zeros_like(causal); acausal[-1] = causal[-1].copy()
acausal_classify_initial(causal, n) ==
    [t \in 0 .. (n - 1) |-> IF t = n - 1 THEN causal[n - 1] ELSE Zeros2]

\* Prediction step: prior[state_k_1] += discrete[state_k, state_k_1] *
\*     continuous[state_k, state_k_1].T @ causal_posterior[k, state_k]
acausal_classify_prior(cont, disc, causal_k) ==
    [state_k_1 \in DOMAIN causal_k |->
        LET term == [state_k \in DOMAIN causal_k |->
                MatVec(Scale(disc[state_k][state_k_1],
                             Transpose(cont[state_k][state_k_1])),
                       causal_k[state_k])]
        IN [b \in Bins |->
               SumOver(DOMAIN causal_k, [state_k \in DOMAIN causal_k |-> term[state_k][b]])]]

\* ratio = exp(log(acausal[k + 1] + eps) - log(prior + eps))
acausal_classify_ratio(acausal_next, prior) ==
    [s \in DOMAIN prior |-> [b \in Bins |->
        Div(Add(acausal_next[s][b], Eps), Add(prior[s][b], Eps))]]

\* as acausal_classify_weights, with the kernel transposed
acausal_classify_weights_transposed(cont, disc, ratio) ==
    [state_k \in DOMAIN ratio |->
        LET term == [state_k_1 \in DOMAIN ratio |->
                MatVec(Scale(disc[state_k][state_k_1],
                             Transpose(cont[state_k][state_k_1])),
                       ratio[state_k_1])]
        IN [b \in Bins |->
               SumOver(DOMAIN ratio, [state_k_1 \in DOMAIN ratio |-> term[state_k_1][b]])]]

\* weights[state_k] += discrete[state_k, state_k_1] *
\*     continuous[state_k, state_k_1] @ ratio[state_k_1]
acausal_classify_weights(cont, disc, ratio) ==
    [state_k \in DOMAIN ratio |->
        LET term == [state_k_1 \in DOMAIN ratio |->
                MatVec(Scale(disc[state_k][state_k_1],
                             cont[state_k][state_k_1]),
                       ratio[state_k_1])]
        IN [b \in Bins |->
               SumOver(DOMAIN ratio, [state_k_1 \in DOMAIN ratio |-> term[state_k_1][b]])]]

\* as acausal_classify_step, taking the ratio from acausal[k], the row being
\* written, in place of acausal[k + 1]
acausal_classify_step_unwritten(cont, disc, causal, acausal, k) ==
    LET prior == Array2(acausal_classify_prior(cont, disc, causal[k]))
        ratio == Array2(acausal_classify_ratio(acausal[k], prior))
        weights == acausal_classify_weights(cont, disc, ratio)
    IN normalize_to_probability(Times2(weights, causal[k]))

\* as acausal_classify_step, normalizing the weights alone
acausal_classify_step_weights_only(cont, disc, causal, acausal, k) ==
    LET prior == Array2(acausal_classify_prior(cont, disc, causal[k]))
        ratio == Array2(acausal_classify_ratio(acausal[k + 1], prior))
        weights == acausal_classify_weights(cont, disc, ratio)
    IN normalize_to_probability(weights)

\* acausal[k] = normalize_to_probability(weights * causal[k]), k <= n_time - 2
acausal_classify_step(cont, disc, causal, acausal, k) ==
    LET prior == Array2(acausal_classify_prior(cont, disc, causal[k]))
        ratio == Array2(acausal_classify_ratio(acausal[k + 1], prior))
        weights == acausal_classify_weights(cont, disc, ratio)
    IN normalize_to_probability(Times2(weights, causal[k]))

(***************************************************************************)
(* core.py: _causal_decode and _acausal_decode (single regime)             *)
(***************************************************************************)
\* posterior[0] = normalize_to_probability(initial_conditions * likelihood[0])
causal_decode_initial(ic, lik) ==
    normalize_to_probability_1d(Times1(ic, lik[0]))

\* as causal_decode_step, without the prior
causal_decode_step_no_prior(T, lik, post, time_ind) ==
    normalize_to_probability_1d(lik[time_ind])

\* as causal_decode_step, without the transition
causal_decode_step_no_transition(T, lik, post, time_ind) ==
    normalize_to_probability_1d(Times1(post[time_ind - 1], lik[time_ind]))

\* prior = state_transition.T @ posterior[time_ind - 1];
\* posterior[time_ind] = normalize_to_probability(prior * likelihood[time_ind])
causal_decode_step(T, lik, post, time_ind) ==
    LET prior == MatVec(Transpose(T), post[time_ind - 1])
    IN normalize_to_probability_1d(Times1(prior, lik[time_ind]))

\* acausal_posterior = zeros_like(causal); acausal[-1] = causal[-1].copy()
acausal_decode_initial(causal, n) ==
    [t \in 0 .. (n - 1) |-> IF t = n - 1 THEN causal[n - 1] ELSE Zeros1]

\* acausal_prior = state_transition.T @ causal[time_ind];
\* weights = exp(log(acausal[time_ind + 1] + eps) - log(acausal_prior + eps))
\*           @ state_transition, a row vector times the matrix
acausal_decode_step(T, causal, acausal, time_ind) ==
    LET acausal_prior == Array1(MatVec(Transpose(T), causal[time_ind]))
        ratio == Array1([b \in Bins |->
            Div(Add(acausal[time_ind + 1][b], Eps), Add(acausal_prior[b], Eps))])
        weights == VecMat(ratio, T)
    IN normalize_to_probability_1d(Times1(weights, causal[time_ind]))

(***************************************************************************)
(* core.py: the GPU variants.  cp.asarray(x, dtype=cp.float32) rounds each *)
(* entry to single precision; NaN, inf and zero pass unchanged.  The       *)
(* rational values of this model carry no rounding, so the cast keeps the  *)
(* value and the comparison with the CPU result is up to that rounding.    *)
(***************************************************************************)
Float32(x) == x
AsFloat32_1(x) == [b \in DOMAIN x |-> Float32(x[b])]
AsFloat32_2(x) == [s \in DOMAIN x |-> AsFloat32_1(x[s])]
AsFloat32_K(T) == [b \in DOMAIN T |-> AsFloat32_1(T[b])]

\* distribution / cp.nansum(distribution)
normalize_to_probability_gpu(distribution) ==
    LET d == Array2(distribution)
        total == SumOver(DOMAIN d, [s \in DOMAIN d |-> NanSum(Bins, d[s])])
    IN [s \in DOMAIN d |-> [b \in Bins |-> Div(d[s][b], total)]]

normalize_to_probability_gpu_1d(distribution) ==
    LET d == Array1(distribution)
        total == NanSum(Bins, d)
    IN [b \in Bins |-> Div(d[b], total)]

\* cupy checks an integer index against the axis length: posterior[0] and
\* likelihood[0] of an empty array raise IndexError
GpuIndexError(n) == n = 0

\* _causal_classify_gpu, posterior[t]: the loop unrolled
RECURSIVE causal_classify_gpu_at(_, _, _, _, _)
causal_classify_gpu_at(ic, cont, disc, lik, t) ==
    IF t = 0
    THEN normalize_to_probability_gpu(
             [s \in DOMAIN lik[0] |-> [b \in Bins |->
                 Mul(Float32(ic[s][b]), Float32(lik[0][s][b]))]])
    ELSE LET before == Array2(causal_classify_gpu_at(ic, cont, disc, lik, t - 1))
             prior == [state_k \in DOMAIN before |-> [b \in Bins |->
                 SumOver(DOMAIN before, [state_k_1 \in DOMAIN before |->
                     SumOver(Bins, [b1 \in Bins |->
                         Mul(Mul(Float32(disc[state_k_1][state_k]),
                                 Float32(cont[state_k_1][state_k][b1][b])),
                             before[state_k_1][b1])])])]]
         IN normalize_to_probability_gpu(
                [s \in DOMAIN before |-> [b \in Bins |->
                    Mul(prior[s][b], Float32(lik[t][s][b]))]])

\* one pass of the loop of _acausal_classify_gpu at index k, from
\* acausal_posterior[k + 1]
acausal_classify_gpu_step(cont, disc, causal, acausal_next, k) ==
    LET causal_k == AsFloat32_2(causal[k])
        prior == Array2([state_k_1 \in DOMAIN causal_k |-> [b \in Bins |->
            SumOver(DOMAIN causal_k, [state_k \in DOMAIN causal_k |->
                SumOver(Bins, [b1 \in Bins |->
                    Mul(Mul(Float32(disc[state_k][state_k_1]),
                            Float32(cont[state_k][state_k_1][b1][b])),
                        causal_k[state_k][b1])])])]])
        ratio == Array2([s \in DOMAIN causal_k |-> [b \in Bins |->
            Div(Add(acausal_next[s][b], Eps), Add(prior[s][b], Eps))]])
        weights == [state_k \in DOMAIN causal_k |-> [b \in Bins |->
            SumOver(DOMAIN causal_k, [state_k_1 \in DOMAIN causal_k |->
                SumOver(Bins, [b1 \in Bins |->
                    Mul(Mul(Float32(disc[state_k][state_k_1]),
                            Float32(cont[state_k][state_k_1][b][b1])),
                        ratio[state_k_1][b1])])])]]
    IN normalize_to_probability_gpu(
           [s \in DOMAIN causal_k |-> [b \in Bins |->
               Mul(weights[s][b], causal_k[s][b])]])

\* _causal_decode_gpu, posterior[t]: the loop unrolled
RECURSIVE causal_decode_gpu_at(_, _, _, _)
causal_decode_gpu_at(ic, T, lik, t) ==
    IF t = 0
    THEN normalize_to_probability_gpu_1d(
             Times1(AsFloat32_1(ic), AsFloat32_1(lik[0])))
    ELSE LET before == Array1(causal_decode_gpu_at(ic, T, lik, t - 1))
         IN normalize_to_probability_gpu_1d(
                Times1(MatVec(Transpose(AsFloat32_K(T)), before),
                       AsFloat32_1(lik[t])))

\* one pass of the loop of _acausal_decode_gpu at index time_ind
acausal_decode_gpu_step(T, causal, acausal_next, time_ind) ==
    LET causal_t == AsFloat32_1(causal[time_ind])
        acausal_prior == Array1(MatVec(Transpose(AsFloat32_K(T)), causal_t))
        ratio == Array1([b \in Bins |->
            Div(Add(acausal_next[b], Eps), Add(acausal_prior[b], Eps))])
        weights == VecMat(ratio, AsFloat32_K(T))
    IN normalize_to_probability_gpu_1d(Times1(weights, causal_t))

(***************************************************************************)
(* core.py: scaled_likelihood.  A log-likelihood value is <<x, 1>> for the *)
(* finite value x * ln 2 (x an integer), <<-1, 0>> for -inf, or NaN; on    *)
(* such values np.exp is an exact power of two.                            *)
(***************************************************************************)
NegInf == <<-1, 0>>

RECURSIVE Pow2(_)
Pow2(e) == IF e = 0 THEN 1 ELSE 2 * Pow2(e - 1)

\* np.nanmax of one row: NaN entries are skipped; an all-NaN row gives NaN
NanMaxRow(row) ==
    LET present == {b \in Bins : ~IsNaN(row[b])}
        finite == {b \in present : row[b] # NegInf}
    IN IF present = {} THEN NaN
       ELSE IF finite = {} THEN NegInf
       ELSE LET top == CHOOSE b \in finite :
                           \A c \in finite : row[c][1] <= row[b][1]
            IN row[top]

\* log_likelihood - max_log_likelihood, with max the row's nanmax
LogSub(a, m) ==
    IF IsNaN(a) \/ IsNaN(m) THEN NaN
    ELSE IF a = NegInf THEN (IF m = NegInf THEN NaN ELSE NegInf)
    ELSE IF m = NegInf THEN Inf
    ELSE <<a[1] - m[1], 1>>

\* np.exp on a log value
Exp(v) ==
    IF IsNaN(v) THEN NaN
    ELSE IF v = NegInf THEN Zero
    ELSE IF v = Inf THEN Inf
    ELSE IF v[1] <= 0 THEN Q(1, Pow2(0 - v[1]))
    ELSE <<Pow2(v[1]), 1>>

\* one row of scaled_likelihood(log_likelihood, axis=1):
\* exp(row - nanmax(row)), then likelihood[isnan(likelihood)] = 0.0
scaled_likelihood(row) ==
    LET max_log_likelihood == NanMaxRow(row)
        likelihood == [b \in Bins |-> Exp(LogSub(row[b], max_log_likelihood))]
    IN [b \in Bins |-> IF IsNaN(likelihood[b]) THEN Zero ELSE likelihood[b]]

(***************************************************************************)
(* Inputs of a decode call                                                 *)
(***************************************************************************)
\* is_track_interior: every bin interior, or the last bin exterior
AllInterior == [b \in Bins |-> TRUE]
LastExterior == [b \in Bins |-> b # LastBin]
Masks == {AllInterior, LastExterior}

Interior(mask) == {b \in Bins : mask[b]}
Exterior(mask) == {b \in Bins : ~mask[b]}

\* value[..., ~is_track_interior] = np.nan on one row
MaskRow(row, mask) == [b \in Bins |-> IF mask[b] THEN row[b] ELSE NaN]

OneHot(c, hot, cold) == [b \in Bins |-> IF b = c THEN hot ELSE cold]

\* likelihood rows handed to the filter as they are: non-negative at the
\* interior bins, NaN at the exterior bins
RawRows(mask) ==
    {MaskRow(r, mask) :
        r \in {[b \in Bins |-> One], [b \in Bins |-> <<b + 1, 1>>],
               OneHot(0, One, Zero)}}

\* a likelihood whose row t is concentrated on bin t, one row per bin
OneHotLikelihood == [t \in 0 .. LastBin |-> OneHot(t, One, Zero)]

\* log-likelihood rows as the emission model returns them (NaN at the
\* exterior bins), for scaled_likelihood
LogRows(mask) ==
    {MaskRow(r, mask) :
        r \in {[b \in Bins |-> Zero], [b \in Bins |-> <<0 - b, 1>>]}
              \cup (IF mask = AllInterior THEN {}
                    ELSE {[b \in Bins |-> NegInf], OneHot(1, Zero, NegInf)})}

\* rows of the (n_time, n_bins) likelihood: raw, or through scaled_likelihood
LikelihoodRows(mask, scaled) ==
    IF scaled THEN {scaled_likelihood(r) : r \in LogRows(mask)}
    ELSE RawRows(mask)

\* np.stack([likelihood] * n_states, axis=1): the same row for every regime
Broadcast(lik) ==
    [t \in DOMAIN lik |-> [s \in States |-> lik[t]]]

\* bin-to-bin kernels, zero in the rows and columns of exterior bins
IdentityKernel(mask) ==
    [b \in Bins |-> [b2 \in Bins |->
        IF b = b2 /\ mask[b] THEN One ELSE Zero]]

UniformKernel(mask) ==
    [b \in Bins |-> [b2 \in Bins |->
        IF mask[b] /\ mask[b2] THEN Q(1, Cardinality(Interior(mask)))
        ELSE Zero]]

\* a random walk that takes no account of the track ('random_walk'): it
\* drifts to the next bin and is absorbed at the last bin, exterior or not;
\* rows sum to 1, and the matrix is not symmetric
DriftKernel ==
    [b \in Bins |-> [b2 \in Bins |->
        IF b = LastBin THEN (IF b2 = LastBin THEN One ELSE Zero)
        ELSE IF b2 = b \/ b2 = b + 1 THEN Q(1, 2) ELSE Zero]]

Kernels(mask) == {IdentityKernel(mask), UniformKernel(mask), DriftKernel}

\* (n_states, n_states, n_bins, n_bins) arrays: one kernel for every regime
\* pair, or a different kernel on each side of the diagonal
ContinuousTransitions(mask) ==
    {[i \in States |-> [j \in States |-> K]] :
        K \in {IdentityKernel(mask), UniformKernel(mask)}}
    \cup {[i \in States |-> [j \in States |->
              IF i < j THEN DriftKernel
              ELSE IF i > j THEN UniformKernel(mask)
              ELSE IF i = 0 THEN DriftKernel ELSE IdentityKernel(mask)]]}

\* transition arrays fitted for one regime more than the likelihood holds:
\* shape (n_states + 1, n_states + 1, n_bins, n_bins) and
\* (n_states + 1, n_states + 1), the latter row-stochastic
OversizedContinuous(mask) ==
    [i \in 0 .. NStates |-> [j \in 0 .. NStates |-> UniformKernel(mask)]]
OversizedDiscrete ==
    [i \in 0 .. NStates |-> [j \in 0 .. NStates |-> Q(1, NStates + 1)]]

\* (n_states, n_states) row-stochastic matrices: a strong diagonal, and a
\* matrix that is not symmetric (regime 0 leaves uniformly, the others stay)
StrongDiagonal ==
    [i \in States |-> [j \in States |->
        IF i = j THEN Q(3, 4) ELSE Q(1, 4 * (NStates - 1))]]

Absorbing ==
    [i \in States |-> [j \in States |->
        IF i = 0 THEN Q(1, NStates) ELSE IF i = j THEN One ELSE Zero]]

DiscreteTransitions == {StrongDiagonal, Absorbing}

\* (n_bins,) initial conditions: uniform over the interior bins
\* ('uniform_on_track'), or positive on every bin and not uniform
UniformOnTrack(mask) ==
    [b \in Bins |-> IF mask[b] THEN Q(1, Cardinality(Interior(mask))) ELSE Zero]

Skewed == [b \in Bins |-> IF b = 0 THEN Q(1, 2) ELSE Q(1, 2 * (NBins - 1))]

InitialConditions1(mask) == {UniformOnTrack(mask), Skewed}

\* (n_states, n_bins) initial conditions: np.stack([ic] * n_states) / n_states,
\* or a different distribution in each regime (regime s favours bin s)
InitialConditions2(mask) ==
    {[s \in States |-> [b \in Bins |->
        Div(UniformOnTrack(mask)[b], <<NStates, 1>>)]],
     [s \in States |-> [b \in Bins |->
        Div(IF b = s THEN Q(1, 2) ELSE Q(1, 2 * (NBins - 1)), <<NStates, 1>>)]]}

(***************************************************************************)
(* State of one decode call: its arguments, the arrays it allocates and    *)
(* the position of its loops.                                              *)
(***************************************************************************)
VARIABLES
    fn,                          \* "classify" or "decode": the pair of functions run
    n_time,                      \* likelihood.shape[0]
    is_track_interior,           \* the mask the inputs were built with
    initial_conditions,
    continuous_state_transition, \* argument of the classify functions
    discrete_state_transition,   \* argument of the classify functions
    state_transition,            \* argument of the decode functions
    likelihood,
    posterior,                   \* the causal posterior being filled
    acausal_posterior,           \* the smoothed posterior being filled
    k,                           \* the loop index (k, time_ind)
    pc,                          \* "start", "causal", "acausal", "crashed"
    out_of_bounds,               \* an index outside an array has been accessed
    other_call,                  \* a second call on the same fitted arrays, or None
    emission,                    \* a call of estimate_multiunit_likelihood2, or None
    classifier,                  \* a classifier object, a call of classifier_1D, or None
    encoding                     \* a call of fit_multiunit_likelihood2, or None

vars == <<fn, n_time, is_track_interior, initial_conditions,
          continuous_state_transition, discrete_state_transition,
          state_transition, likelihood, posterior, acausal_posterior, k, pc,
          out_of_bounds, other_call, emission,
                 classifier, encoding>>

inputs == <<fn, n_time, is_track_interior, initial_conditions,
            continuous_state_transition, discrete_state_transition,
            state_transition, likelihood>>

Times == 0 .. (n_time - 1)

\* an absent argument or an array not yet allocated
None == <<>>

InitClassify ==
    /\ fn = "classify"
    /\ \E mask \in Masks, scaled \in BOOLEAN :
        /\ is_track_interior = mask
        /\ initial_conditions \in InitialConditions2(mask)
        /\ \/ /\ continuous_state_transition \in ContinuousTransitions(mask)
              /\ discrete_state_transition \in DiscreteTransitions
           \/ /\ continuous_state_transition = OversizedContinuous(mask)
              /\ discrete_state_transition = OversizedDiscrete
        /\ state_transition = None
        /\ \E n \in 0 .. MaxTime :
            /\ n_time = n
            /\ \E lik \in [0 .. (n - 1) -> LikelihoodRows(mask, scaled)] :
                   likelihood = Broadcast(lik)

InitDecode ==
    /\ fn = "decode"
    /\ \E mask \in Masks, scaled \in BOOLEAN :
        /\ is_track_interior = mask
        /\ initial_conditions \in InitialConditions1(mask)
        /\ continuous_state_transition = None
        /\ discrete_state_transition = None
        /\ state_transition \in Kernels(mask)
        /\ \E n \in 0 .. MaxTime :
            /\ n_time = n
            /\ \/ likelihood \in [0 .. (n - 1) -> LikelihoodRows(mask, scaled)]
               \/ /\ n = NBins /\ mask = AllInterior /\ ~scaled
                  /\ likelihood = OneHotLikelihood

\* a call of the filter followed by the smoother, as predict makes it
InitFilter ==
    /\ InitClassify \/ InitDecode
    /\ posterior = None
    /\ acausal_posterior = None
    /\ k = 0
    /\ pc = "start"
    /\ out_of_bounds = FALSE
    /\ other_call = None
    /\ emission = None
    /\ classifier = None
    /\ encoding = None

\* causal posteriors a caller may hand to the smoother directly: at every
\* time step a probability distribution over the interior bins, NaN at the
\* exterior bins
CausalRows(mask) == {MaskRow(UniformOnTrack(mask), mask),
                     MaskRow(OneHot(0, One, Zero), mask)}

\* a call of the smoother alone on a given causal posterior
InitSmoother ==
    /\ \E mask \in Masks, n \in 1 .. 2 :
        /\ is_track_interior = mask
        /\ n_time = n
        /\ k = n
        /\ \E rows \in [0 .. (n - 1) -> CausalRows(mask)] :
            \/ /\ fn = "classify"
               /\ posterior = [t \in 0 .. (n - 1) |-> [s \in States |->
                      [b \in Bins |-> Div(rows[t][b], <<NStates, 1>>)]]]
               /\ continuous_state_transition \in ContinuousTransitions(mask)
               /\ discrete_state_transition \in DiscreteTransitions
               /\ state_transition = None
            \/ /\ fn = "decode"
               /\ posterior = rows
               /\ continuous_state_transition = None
               /\ discrete_state_transition = None
               /\ state_transition \in Kernels(mask)
    /\ initial_conditions = None
    /\ likelihood = None
    /\ acausal_posterior = None
    /\ pc = "causal"
    /\ out_of_bounds = FALSE
    /\ other_call = None
    /\ emission = None
    /\ classifier = None
    /\ encoding = None

Init == InitFilter \/ InitSmoother

\* the arguments other than initial_conditions
other_inputs == <<fn, n_time, is_track_interior, continuous_state_transition,
                  discrete_state_transition, state_transition, likelihood>>

\* posterior[0] = ... and acausal_posterior[-1] = ... on an empty array store a
\* row past the end of a zero-byte allocation (njit checks no bounds).  Where
\* the bytes land is up to the allocator: outside every array of the call, or
\* over an array the caller holds.  The model lets them land on x, leaving
\* garbage (NaN or zero bit patterns), or elsewhere.
OutOfBoundsWrite(x) ==
    IF x = None THEN {x}
    ELSE {x} \cup
         {IF fn = "classify" THEN [s \in DOMAIN x |-> [b \in Bins |-> v]]
          ELSE [b \in Bins |-> v] : v \in {NaN, Zero}}

\* the values of an array the caller holds after the first statement of a pass
AfterFirstWrite(x) == IF n_time = 0 THEN OutOfBoundsWrite(x) ELSE {x}

\* every entry of a (n_bins,) or (n_states, n_bins) array is representable
Small1(x) == \A b \in Bins : x[b][2] <= MaxDen
Small2(x) == \A s \in States : Small1(x[s])

\* _causal_classify up to the loop: posterior = zeros_like(likelihood), then
\* posterior[0]
CausalClassifyStart ==
    /\ pc = "start" /\ fn = "classify"
    /\ posterior' = [t \in Times |->
            IF t = 0 THEN causal_classify_initial(initial_conditions, likelihood)
            ELSE Zeros2]
    /\ k' = 1
    /\ out_of_bounds' = (n_time = 0)
    /\ pc' \in (IF n_time = 0 THEN {"causal", "crashed"} ELSE {"causal"})
    /\ initial_conditions' \in AfterFirstWrite(initial_conditions)
    /\ UNCHANGED <<other_inputs, acausal_posterior, other_call, emission,
                 classifier, encoding>>

\* one pass of: for k in np.arange(1, n_time)
CausalClassifyStep ==
    /\ pc = "causal" /\ fn = "classify" /\ k < n_time
    /\ posterior' = [posterior EXCEPT ![k] =
            causal_classify_step(continuous_state_transition,
                                 discrete_state_transition,
                                 likelihood, posterior, k)]
    /\ k' = k + 1
    /\ UNCHANGED <<inputs, acausal_posterior, pc, out_of_bounds, other_call, emission,
                 classifier, encoding>>

\* _acausal_classify on the finished causal posterior, up to the loop
AcausalClassifyStart ==
    /\ pc = "causal" /\ fn = "classify" /\ k >= n_time
    /\ acausal_posterior' = acausal_classify_initial(posterior, n_time)
    /\ k' = n_time - 2
    /\ out_of_bounds' = (out_of_bounds \/ n_time = 0)
    /\ pc' \in (IF n_time = 0 THEN {"acausal", "crashed"} ELSE {"acausal"})
    /\ initial_conditions' \in AfterFirstWrite(initial_conditions)
    /\ UNCHANGED <<other_inputs, posterior, other_call, emission,
                 classifier, encoding>>

\* one pass of: for k in np.arange(n_time - 2, -1, -1)
AcausalClassifyStep ==
    /\ pc = "acausal" /\ fn = "classify" /\ k >= 0
    /\ Small2(posterior[k]) /\ Small2(acausal_posterior[k + 1])
    /\ acausal_posterior' = [acausal_posterior EXCEPT ![k] =
            acausal_classify_step(continuous_state_transition,
                                  discrete_state_transition,
                                  posterior, acausal_posterior, k)]
    /\ k' = k - 1
    /\ UNCHANGED <<inputs, posterior, pc, out_of_bounds, other_call, emission,
                 classifier, encoding>>

\* _causal_decode up to the loop
CausalDecodeStart ==
    /\ pc = "start" /\ fn = "decode"
    /\ posterior' = [t \in Times |->
            IF t = 0 THEN causal_decode_initial(initial_conditions, likelihood)
            ELSE Zeros1]
    /\ k' = 1
    /\ out_of_bounds' = (n_time = 0)
    /\ pc' \in (IF n_time = 0 THEN {"causal", "crashed"} ELSE {"causal"})
    /\ initial_conditions' \in AfterFirstWrite(initial_conditions)
    /\ UNCHANGED <<other_inputs, acausal_posterior, other_call, emission,
                 classifier, encoding>>

\* one pass of: for time_ind in np.arange(1, n_time)
CausalDecodeStep ==
    /\ pc = "causal" /\ fn = "decode" /\ k < n_time
    /\ posterior' = [posterior EXCEPT ![k] =
            causal_decode_step(state_transition, likelihood, posterior, k)]
    /\ k' = k + 1
    /\ UNCHANGED <<inputs, acausal_posterior, pc, out_of_bounds, other_call, emission,
                 classifier, encoding>>

\* _acausal_decode on the finished causal posterior, up to the loop
AcausalDecodeStart ==
    /\ pc = "causal" /\ fn = "decode" /\ k >= n_time
    /\ acausal_posterior' = acausal_decode_initial(posterior, n_time)
    /\ k' = n_time - 2
    /\ out_of_bounds' = (out_of_bounds \/ n_time = 0)
    /\ pc' \in (IF n_time = 0 THEN {"acausal", "crashed"} ELSE {"acausal"})
    /\ initial_conditions' \in AfterFirstWrite(initial_conditions)
    /\ UNCHANGED <<other_inputs, posterior, other_call, emission,
                 classifier, encoding>>

\* one pass of: for time_ind in np.arange(n_time - 2, -1, -1)
AcausalDecodeStep ==
    /\ pc = "acausal" /\ fn = "decode" /\ k >= 0
    /\ Small1(posterior[k]) /\ Small1(acausal_posterior[k + 1])
    /\ acausal_posterior' = [acausal_posterior EXCEPT ![k] =
            acausal_decode_step(state_transition, posterior,
                                acausal_posterior, k)]
    /\ k' = k - 1
    /\ UNCHANGED <<inputs, posterior, pc, out_of_bounds, other_call, emission,
                 classifier, encoding>>

Next ==
    \/ CausalClassifyStart
    \/ CausalClassifyStep
    \/ AcausalClassifyStart
    \/ AcausalClassifyStep
    \/ CausalDecodeStart
    \/ CausalDecodeStep
    \/ AcausalDecodeStart
    \/ AcausalDecodeStep

Spec == Init /\ [][Next]_vars

\* the causal posterior holds its final value at every index below this
CausalFilled == IF pc = "start" THEN 0 ELSE IF pc = "causal" THEN k ELSE n_time
\* the forward pass has returned
CausalDone == pc = "acausal" \/ (pc = "causal" /\ k >= n_time)
\* the backward pass has returned
AcausalDone == pc = "acausal" /\ k < 0
\* the smoothed posterior holds its final value at every index above k
AcausalFilled == IF pc = "acausal" THEN {t \in Times : t > k} ELSE {}

(***************************************************************************)
(* Predicates on the arguments and the results                             *)
(***************************************************************************)
\* the call runs the filter (it has the filter's arguments)
HasFilter == initial_conditions # None

\* the (regime, bin) entries of posterior row t as one family of values
Entries(x) ==
    IF fn = "classify" THEN [e \in States \X Bins |-> x[e[1]][e[2]]]
    ELSE [e \in {0} \X Bins |-> x[e[2]]]

EntryIndex == IF fn = "classify" THEN States \X Bins ELSE {0} \X Bins

\* np.nansum of one time step of a posterior or likelihood array
StepNanSum(x) == NanSum(EntryIndex, Entries(x))

ExteriorBins == Exterior(is_track_interior)
InteriorBins == Interior(is_track_interior)

\* the likelihood is NaN at every exterior bin and finite elsewhere
LikelihoodNaNAtExterior ==
    HasFilter /\ \A t \in Times : \A e \in EntryIndex :
        IsNaN(Entries(likelihood[t])[e]) <=> e[2] \in ExteriorBins

\* the likelihood is zero at every exterior bin and nowhere NaN
LikelihoodZeroAtExterior ==
    HasFilter /\ \A t \in Times : \A e \in EntryIndex :
        /\ ~IsNaN(Entries(likelihood[t])[e])
        /\ e[2] \in ExteriorBins => Entries(likelihood[t])[e] = Zero

\* the likelihood is positive at every interior bin
LikelihoodPositiveInside ==
    HasFilter /\ \A t \in Times : \A e \in EntryIndex :
        e[2] \in InteriorBins =>
            (IsFinite(Entries(likelihood[t])[e])
             /\ Entries(likelihood[t])[e] # Zero)

\* the initial conditions are positive at every interior bin
InitialPositiveInside ==
    HasFilter /\ \A e \in EntryIndex :
        e[2] \in InteriorBins => Entries(initial_conditions)[e] # Zero

(***************************************************************************)
(* C1: at every time index the NaN-ignoring sum of the causal posterior    *)
(* over all (regime, bin) entries is 1, for a likelihood that is NaN at    *)
(* the exterior bins.  Stated here for inputs that are positive at every   *)
(* interior bin, so that no step has an empty product.                     *)
(***************************************************************************)
C1_CausalSumsToOne ==
    (LikelihoodNaNAtExterior /\ LikelihoodPositiveInside
        /\ InitialPositiveInside)
    => \A t \in Times : t < CausalFilled => StepNanSum(posterior[t]) = One

\* the finished causal posterior is, at every time step, a probability
\* distribution over the interior bins (finite there, summing to 1), and
\* NaN or zero at the exterior bins
ValidCausalPosterior ==
    /\ CausalDone
    /\ \A t \in Times :
        /\ StepNanSum(posterior[t]) = One
        /\ \A e \in EntryIndex :
               IF e[2] \in InteriorBins THEN IsFinite(Entries(posterior[t])[e])
               ELSE Entries(posterior[t])[e] \in {NaN, Zero}

(***************************************************************************)
(* C2: for a valid causal posterior, at every time index the NaN-ignoring  *)
(* sum of the acausal posterior over all (regime, bin) entries is 1.       *)
(***************************************************************************)
C2_AcausalSumsToOne ==
    ValidCausalPosterior
    => \A t \in AcausalFilled : StepNanSum(acausal_posterior[t]) = One

(***************************************************************************)
(* C3: the smoother's output at the last time index is a copy of the       *)
(* causal posterior at the last time index, from the smoother's first      *)
(* assignment on and after every backward step; with n_time = 1 the loop   *)
(* runs zero times and the whole output equals the causal posterior.       *)
(***************************************************************************)
C3_LastIndexIsCausal ==
    (pc = "acausal" /\ n_time > 0) =>
        /\ acausal_posterior[n_time - 1] = posterior[n_time - 1]
        /\ n_time = 1 => (AcausalDone /\ acausal_posterior = posterior)

\* a finished smoother run of the longest series whose backward steps
\* changed the first time step
C3_Witness ==
    /\ AcausalDone /\ n_time = MaxTime
    /\ acausal_posterior[0] # posterior[0]
    /\ acausal_posterior[n_time - 1] = posterior[n_time - 1]

(***************************************************************************)
(* Reference recursions, written entry by entry over (regime, bin)         *)
(***************************************************************************)
\* x / nansum(x) over all (regime, bin) entries
RefNormalize(x) ==
    LET total == NanSum(States \X Bins, [e \in States \X Bins |-> x[e[1]][e[2]]])
    IN [s \in States |-> [b \in Bins |-> Div(x[s][b], total)]]

\* sum over source regimes s1 of discrete[s1, s] times
\* (transpose(continuous[s1, s]) applied to p[s1])[b]
RefPrior(p) ==
    [s \in States |-> [b \in Bins |->
        SumOver(States, [s1 \in States |->
            Mul(discrete_state_transition[s1][s],
                SumOver(Bins, [b1 \in Bins |->
                    Mul(continuous_state_transition[s1][s][b1][b],
                        p[s1][b1])]))])]]

RefForward(t) ==
    IF t = 0 THEN RefNormalize(Times2(initial_conditions, likelihood[0]))
    ELSE RefNormalize(Times2(Array2(RefPrior(posterior[t - 1])), likelihood[t]))

(***************************************************************************)
(* C4: the forward pass computes the reference recursion: posterior[0] =   *)
(* normalize(initial_conditions * likelihood[0]) and, for k > 0,           *)
(* posterior[k] = normalize(prior * likelihood[k]) with prior[s, b] the    *)
(* sum over source regimes s1 of discrete[s1, s] times                     *)
(* (transpose(continuous[s1, s]) applied to posterior[k-1, s1])[b].        *)
(***************************************************************************)
C4_ForwardIsReference ==
    (fn = "classify" /\ HasFilter /\ pc = "causal") =>
        \A t \in Times : t < CausalFilled => posterior[t] = RefForward(t)

\* a finished forward pass of the longest series, with a discrete matrix
\* and kernels that are not symmetric, ending in a probability distribution
C4_Witness ==
    /\ fn = "classify" /\ HasFilter /\ CausalDone /\ n_time = MaxTime
    /\ discrete_state_transition = Absorbing
    /\ continuous_state_transition[0][1] # continuous_state_transition[1][0]
    /\ StepNanSum(posterior[n_time - 1]) = One
    /\ posterior[n_time - 1] = RefForward(n_time - 1)

\* exp(log(acausal[t + 1] + eps) - log(prior + eps)), prior from causal[t]
RefRatio(t) ==
    LET prior == Array2(RefPrior(posterior[t]))
    IN [s \in States |-> [b \in Bins |->
           Div(Add(acausal_posterior[t + 1][s][b], Eps), Add(prior[s][b], Eps))]]

\* sum over s1 of discrete[s, s1] times (continuous[s, s1] applied
\* untransposed to ratio[s1])[b]
RefWeight(t) ==
    LET ratio == Array2(RefRatio(t))
    IN [s \in States |-> [b \in Bins |->
        SumOver(States, [s1 \in States |->
            Mul(discrete_state_transition[s][s1],
                SumOver(Bins, [b1 \in Bins |->
                    Mul(continuous_state_transition[s][s1][b][b1],
                        ratio[s1][b1])]))])]]

RefBackward(t) == RefNormalize(Times2(RefWeight(t), posterior[t]))

(***************************************************************************)
(* C5: at every backward step k the smoother takes the one-step-ahead      *)
(* prior from the causal posterior at k, the ratio from acausal[k+1] and   *)
(* that prior with the same epsilon in numerator and denominator, the      *)
(* weight as the sum over s1 of discrete[s, s1] times continuous[s, s1]    *)
(* applied untransposed to ratio[s1], and sets                             *)
(* acausal[k] = normalize(weight * causal[k]).                             *)
(***************************************************************************)
C5_BackwardIsReference ==
    fn = "classify" =>
        \A t \in AcausalFilled :
            t < n_time - 1 => acausal_posterior[t] = RefBackward(t)

\* a finished smoother run of the longest series, with kernels that are not
\* symmetric, whose backward steps each gave a probability distribution and
\* changed the first time step
C5_Witness ==
    /\ fn = "classify" /\ AcausalDone /\ n_time = MaxTime
    /\ continuous_state_transition[0][1] # continuous_state_transition[1][0]
    /\ \A t \in 0 .. (n_time - 2) : StepNanSum(acausal_posterior[t]) = One
    /\ acausal_posterior[0] # posterior[0]

(***************************************************************************)
(* C6: causality of the forward pass.  For a second likelihood that agrees *)
(* with the first at every index <= t (row j > t replaced), the causal     *)
(* posterior of _causal_classify at t is the same.  Compared when the      *)
(* forward pass returns.                                                   *)
(***************************************************************************)
\* rows a likelihood of this grid may hold at one time step: flat, graded
\* and concentrated on one bin, NaN at the exterior bins
AlternativeRows ==
    {[s \in States |-> MaskRow(r, is_track_interior)] :
        r \in {[b \in Bins |-> One], [b \in Bins |-> Q(1, Pow2(b))],
               OneHot(0, One, Zero)}}

C6_Causality ==
    (fn = "classify" /\ HasFilter /\ pc = "causal" /\ k = n_time) =>
        \A t \in Times : \A j \in Times : \A r \in AlternativeRows :
            j > t =>
                causal_classify_at(initial_conditions,
                    continuous_state_transition, discrete_state_transition,
                    [likelihood EXCEPT ![j] = r], t) = posterior[t]

\* a finished forward pass of the longest series for which replacing the
\* last likelihood row changes the last posterior row (and no other)
C6_Witness ==
    /\ fn = "classify" /\ HasFilter /\ pc = "causal" /\ k = n_time
    /\ n_time = MaxTime
    /\ StepNanSum(posterior[n_time - 1]) = One
    /\ \E r \in AlternativeRows :
        LET other == [likelihood EXCEPT ![n_time - 1] = r]
            run(t) == causal_classify_at(initial_conditions,
                          continuous_state_transition,
                          discrete_state_transition, other, t)
        IN /\ run(n_time - 1) # posterior[n_time - 1]
           /\ run(n_time - 2) = posterior[n_time - 2]

(***************************************************************************)
(* C7: when the likelihood is NaN at every exterior bin, every posterior   *)
(* entry at an exterior bin, causal and acausal, of every regime and time  *)
(* step, is NaN.                                                           *)
(***************************************************************************)
C7_ExteriorStaysNaN ==
    LikelihoodNaNAtExterior =>
        \A e \in EntryIndex : e[2] \in ExteriorBins =>
            /\ \A t \in Times :
                   t < CausalFilled => IsNaN(Entries(posterior[t])[e])
            /\ \A t \in AcausalFilled :
                   IsNaN(Entries(acausal_posterior[t])[e])

\* a finished filter and smoother run of the longest series on a grid with
\* an exterior bin and a NaN-at-exterior likelihood
C7_Witness ==
    /\ LikelihoodNaNAtExterior /\ ExteriorBins # {}
    /\ AcausalDone /\ n_time = MaxTime
    /\ \A e \in EntryIndex : e[2] \in ExteriorBins =>
           /\ IsNaN(Entries(posterior[0])[e])
           /\ IsNaN(Entries(acausal_posterior[0])[e])
    /\ \E e \in EntryIndex : IsFinite(Entries(posterior[0])[e])

(***************************************************************************)
(* C8: when the likelihood is zero at every exterior bin (the form         *)
(* scaled_likelihood gives) and no step is degenerate, the causal and the  *)
(* acausal posterior are exactly 0 at every exterior bin, for every regime *)
(* and time step.                                                          *)
(***************************************************************************)
\* the product the forward step t normalizes
ForwardProduct(t) ==
    IF fn = "classify"
    THEN IF t = 0 THEN Times2(initial_conditions, likelihood[0])
         ELSE Times2(causal_classify_prior(continuous_state_transition,
                         discrete_state_transition, posterior[t - 1]),
                     likelihood[t])
    ELSE IF t = 0 THEN Times1(initial_conditions, likelihood[0])
         ELSE Times1(MatVec(Transpose(state_transition), posterior[t - 1]),
                     likelihood[t])

\* step t is degenerate: the NaN-ignoring sum of its product is zero
Degenerate(t) == StepNanSum(ForwardProduct(t)) = Zero

NoDegenerateStep ==
    HasFilter /\ \A t \in Times : t < CausalFilled => ~Degenerate(t)

C8_ExteriorMassZero ==
    (ExteriorBins # {} /\ LikelihoodZeroAtExterior /\ NoDegenerateStep) =>
        \A e \in EntryIndex : e[2] \in ExteriorBins =>
            /\ \A t \in Times :
                   t < CausalFilled => Entries(posterior[t])[e] = Zero
            /\ \A t \in AcausalFilled :
                   Entries(acausal_posterior[t])[e] = Zero

\* a finished filter and smoother run without a degenerate step, whose
\* initial conditions and whose prior at step 1 put mass on the exterior bin
C8_Witness ==
    /\ LikelihoodZeroAtExterior /\ NoDegenerateStep /\ ExteriorBins # {}
    /\ AcausalDone /\ n_time >= 2
    /\ fn = "classify"
    /\ \E e \in EntryIndex :
        /\ e[2] \in ExteriorBins
        /\ Entries(initial_conditions)[e] # Zero
        /\ Entries(causal_classify_prior(continuous_state_transition,
                discrete_state_transition, posterior[0]))[e] # Zero
        /\ Entries(posterior[1])[e] = Zero
        /\ Entries(acausal_posterior[0])[e] = Zero

(***************************************************************************)
(* Single regime, identity kernel                                          *)
(***************************************************************************)
\* the kernel is the identity matrix
IdentityMatrix == [b \in Bins |-> [b2 \in Bins |-> IF b = b2 THEN One ELSE Zero]]

\* no entry of the initial conditions or of the likelihood is NaN
NoNaNInput ==
    /\ HasFilter
    /\ \A e \in EntryIndex : ~IsNaN(Entries(initial_conditions)[e])
    /\ \A t \in Times : \A e \in EntryIndex : ~IsNaN(Entries(likelihood[t])[e])

\* the entry-wise product of the likelihood rows 0 .. t
RECURSIVE LikelihoodProduct(_)
LikelihoodProduct(t) ==
    IF t = 0 THEN Entries(likelihood[0])
    ELSE LET before == LikelihoodProduct(t - 1)
         IN [e \in EntryIndex |-> Mul(before[e], Entries(likelihood[t])[e])]

\* x / nansum(x) on a family of entries
NormalizeEntries(x) ==
    LET total == NanSum(EntryIndex, x)
    IN [e \in EntryIndex |-> Div(x[e], total)]

\* the scenario: n_bins = 3, kernel I_3, initial = [1/3, 1/3, 1/3] and
\* likelihood rows [1,0,0], [0,1,0], [0,0,1]
OneHotScenario ==
    /\ fn = "decode" /\ HasFilter /\ n_time = 3
    /\ state_transition = IdentityMatrix
    /\ initial_conditions = [b \in Bins |-> Q(1, 3)]
    /\ likelihood = OneHotLikelihood

(***************************************************************************)
(* C9 as stated: with a single regime and the identity kernel the causal   *)
(* posterior at every step k equals the normalized likelihood at step k    *)
(* alone, and in the one-hot scenario the causal posterior equals the      *)
(* likelihood at all three steps.                                          *)
(***************************************************************************)
C9_LikelihoodAlone ==
    (fn = "decode" /\ HasFilter /\ state_transition = IdentityMatrix) =>
        /\ \A t \in Times : t < CausalFilled =>
               posterior[t] = normalize_to_probability_1d(likelihood[t])
        /\ (OneHotScenario /\ CausalDone) => posterior = likelihood

(***************************************************************************)
(* C9 amended: with a single regime, the identity kernel and inputs        *)
(* without NaN, the causal posterior at every step k equals the            *)
(* normalized entry-wise product of the initial conditions and the         *)
(* likelihoods at steps 0..k (all NaN once that product is zero            *)
(* everywhere); in the one-hot scenario the causal posterior is [1,0,0]    *)
(* at step 0 and NaN in every bin at steps 1 and 2.                        *)
(***************************************************************************)
C9_EvidenceAccumulates ==
    (fn = "decode" /\ NoNaNInput /\ state_transition = IdentityMatrix) =>
        /\ \A t \in Times : t < CausalFilled =>
               Entries(posterior[t]) =
                   NormalizeEntries([e \in EntryIndex |->
                       Mul(Entries(initial_conditions)[e],
                           LikelihoodProduct(t)[e])])
        /\ (OneHotScenario /\ CausalDone) =>
               /\ posterior[0] = OneHot(0, One, Zero)
               /\ posterior[1] = [b \in Bins |-> NaN]
               /\ posterior[2] = [b \in Bins |-> NaN]

\* the one-hot scenario, run to the end of the forward pass
C9_Witness ==
    /\ OneHotScenario /\ CausalDone
    /\ posterior[0] = likelihood[0]
    /\ posterior[2] # likelihood[2]

(***************************************************************************)
(* Uniform kernel, uniform initial conditions, every bin interior          *)
(***************************************************************************)
\* every kernel has all weights equal, the initial conditions are uniform
\* and every bin is interior
UniformCase ==
    /\ HasFilter /\ is_track_interior = AllInterior
    /\ \A e \in EntryIndex :
           Entries(initial_conditions)[e] = Q(1, Cardinality(EntryIndex))
    /\ IF fn = "classify"
       THEN \A i \in States : \A j \in States :
                continuous_state_transition[i][j] = UniformKernel(AllInterior)
       ELSE state_transition = UniformKernel(AllInterior)

\* x = c * y on the index set I for one finite c > 0: both are finite, they
\* vanish together and their cross products agree
Proportional(x, y, I) ==
    /\ \A i \in I : IsFinite(x[i]) /\ IsFinite(y[i]) /\ (x[i] = Zero <=> y[i] = Zero)
    /\ \A i \in I : \A j \in I : Mul(x[i], y[j]) = Mul(x[j], y[i])

\* the entries of one regime: all of them in the single-regime form
RegimeEntries(s) == {e \in EntryIndex : fn = "classify" => e[1] = s}

(***************************************************************************)
(* C10 as stated: with a uniform kernel, uniform initial conditions and    *)
(* all bins interior, the causal posterior at every step k is proportional *)
(* to the entry-wise product of the likelihoods at steps 0..k.             *)
(***************************************************************************)
C10_ProductOfLikelihoods ==
    UniformCase =>
        \A t \in Times : t < CausalFilled =>
            Proportional(Entries(posterior[t]), LikelihoodProduct(t), EntryIndex)

(***************************************************************************)
(* C10 amended: with a uniform kernel, uniform initial conditions, all     *)
(* bins interior and no degenerate step, the causal posterior at every     *)
(* step k sums to 1 and is, within each regime, proportional to the        *)
(* likelihood at step k alone.                                             *)
(***************************************************************************)
C10_CurrentLikelihoodOnly ==
    (UniformCase /\ NoDegenerateStep) =>
        \A t \in Times : t < CausalFilled =>
            /\ StepNanSum(posterior[t]) = One
            /\ \A s \in States :
                   Proportional(Entries(posterior[t]), Entries(likelihood[t]),
                                RegimeEntries(s))

\* a finished forward pass of the longest series in the uniform case whose
\* likelihood rows are not flat and differ between the first and last step
C10_Witness ==
    /\ UniformCase /\ NoDegenerateStep /\ CausalDone /\ n_time = MaxTime
    /\ \A t \in Times : \E e \in EntryIndex :
           Entries(likelihood[t])[e] # Entries(likelihood[t])[<<e[1], 0>>]
    /\ likelihood[0] # likelihood[n_time - 1]
    /\ ~Proportional(Entries(posterior[n_time - 1]),
                     LikelihoodProduct(n_time - 1), EntryIndex)

(***************************************************************************)
(* Degenerate steps                                                        *)
(***************************************************************************)
\* every entry of one time step is NaN, or every entry is zero
AllNaNOrAllZero(x) ==
    \/ \A e \in EntryIndex : IsNaN(Entries(x)[e])
    \/ \A e \in EntryIndex : Entries(x)[e] = Zero

(***************************************************************************)
(* C11: if the product normalized at step k has NaN-ignoring sum zero,     *)
(* the forward pass goes on (it has no failing step and puts no default    *)
(* distribution in), posterior[k] is all-NaN or all-zero and so is every   *)
(* later posterior[j], j > k.                                              *)
(***************************************************************************)
C11_DegeneratePropagates ==
    HasFilter =>
        \A t \in Times : (t < CausalFilled /\ Degenerate(t)) =>
            \A j \in Times : (t <= j /\ j < CausalFilled) =>
                AllNaNOrAllZero(posterior[j])

\* a finished forward pass of the longest series on a likelihood without
\* NaN, valid at step 0, degenerate at step 1, NaN from there to the end
C11_Witness ==
    /\ HasFilter /\ CausalDone /\ n_time = MaxTime
    /\ \A t \in Times : \A e \in EntryIndex : ~IsNaN(Entries(likelihood[t])[e])
    /\ StepNanSum(posterior[0]) = One
    /\ Degenerate(1)
    /\ StepNanSum(likelihood[n_time - 1]) # Zero
    /\ \A j \in 1 .. (n_time - 1) : AllNaNOrAllZero(posterior[j])

(***************************************************************************)
(* Argument shapes                                                         *)
(***************************************************************************)
\* the arguments of a _causal_classify call agree on n_states: the regime
\* axes of the initial conditions, the kernels and the discrete matrix are
\* those of the likelihood (n_states = likelihood.shape[1])
ShapesAgree ==
    /\ DOMAIN initial_conditions = States
    /\ DOMAIN continuous_state_transition = States
    /\ \A i \in DOMAIN continuous_state_transition :
           DOMAIN continuous_state_transition[i] = States
    /\ DOMAIN discrete_state_transition = States
    /\ \A i \in DOMAIN discrete_state_transition :
           DOMAIN discrete_state_transition[i] = States

(***************************************************************************)
(* C12: if the arguments of a decode call disagree on n_states or n_bins,  *)
(* the call fails before the first posterior entry is computed: no         *)
(* posterior array, causal or acausal, is ever filled from such            *)
(* arguments (by broadcasting or by reading only part of an argument).     *)
(***************************************************************************)
C12_MismatchRejected ==
    (fn = "classify" /\ HasFilter /\ ~ShapesAgree) =>
        (posterior = None /\ acausal_posterior = None)

(***************************************************************************)
(* C13: a decode call on a zero-length time series (n_time = 0) is         *)
(* rejected before any recursion step: neither the forward nor the         *)
(* backward pass reads or writes index 0 or index -1 of an empty array,    *)
(* and the call goes no further than its entry.                            *)
(***************************************************************************)
C13_ZeroLengthRejected ==
    n_time = 0 => (~out_of_bounds /\ pc = "start")

(***************************************************************************)
(* Single-regime embedding: n_states = 1, discrete matrix [[1]],           *)
(* continuous[0, 0] = T                                                    *)
(***************************************************************************)
\* an array with a regime axis of length one in front
Embed(x) == [s \in {0} |-> x]
\* the same at every time step of a series
EmbedSeries(x) == [t \in DOMAIN x |-> Embed(x[t])]
\* continuous_state_transition of shape (1, 1, n_bins, n_bins)
EmbedKernel(T) == [i \in {0} |-> [j \in {0} |-> T]]
\* the discrete matrix [[1]]
UnitDiscrete == [i \in {0} |-> [j \in {0} |-> One]]

\* _causal_classify on the embedded arguments of the decode call, step t
ClassifyForward(t) ==
    causal_classify_at(Embed(initial_conditions), EmbedKernel(state_transition),
                       UnitDiscrete, EmbedSeries(likelihood), t)[0]

\* the backward step of _acausal_classify at t on the embedded arguments
ClassifyBackward(t) ==
    acausal_classify_step(EmbedKernel(state_transition), UnitDiscrete,
                          EmbedSeries(posterior),
                          [u \in {t + 1} |-> Embed(acausal_posterior[u])], t)[0]

(***************************************************************************)
(* C14: _causal_decode returns at every step the posterior of              *)
(* _causal_classify run with n_states = 1, discrete matrix [[1]] and       *)
(* continuous[0, 0] = T, and every backward step of _acausal_decode gives  *)
(* the row _acausal_classify gives under the same embedding.               *)
(***************************************************************************)
C14_DecodeIsClassify ==
    fn = "decode" =>
        /\ HasFilter =>
               \A t \in Times : t < CausalFilled => posterior[t] = ClassifyForward(t)
        /\ \A t \in AcausalFilled :
               t < n_time - 1 => acausal_posterior[t] = ClassifyBackward(t)

(***************************************************************************)
(* C15  GPU variants against the CPU functions                             *)
(***************************************************************************)
\* what the running CPU invocation has done with its index accesses
CpuBehaviour ==
    IF pc = "crashed" THEN "crash"
    ELSE IF out_of_bounds THEN "out_of_bounds_access"
    ELSE "in_bounds"

\* what the GPU variant does with the same series: cupy raises IndexError at
\* the access of index 0 or -1 of an empty array
GpuBehaviour == IF GpuIndexError(n_time) THEN "IndexError" ELSE "in_bounds"

\* the row the GPU variant of the forward pass writes at index t
GpuForward(t) ==
    IF fn = "classify"
    THEN causal_classify_gpu_at(initial_conditions, continuous_state_transition,
                                discrete_state_transition, likelihood, t)
    ELSE causal_decode_gpu_at(initial_conditions, state_transition,
                              likelihood, t)

\* the row the GPU variant of the backward pass writes at index t < n_time - 1
GpuBackward(t) ==
    IF fn = "classify"
    THEN acausal_classify_gpu_step(continuous_state_transition,
                                   discrete_state_transition, posterior,
                                   AsFloat32_2(acausal_posterior[t + 1]), t)
    ELSE acausal_decode_gpu_step(state_transition, posterior,
                                 AsFloat32_1(acausal_posterior[t + 1]), t)

\* the numeric half: on a series of at least one step every row the CPU
\* function has written is the row of its GPU variant
C15_SameRows ==
    /\ HasFilter =>
           \A t \in Times : t < CausalFilled => posterior[t] = GpuForward(t)
    /\ \A t \in AcausalFilled :
           t < n_time - 1 => acausal_posterior[t] = GpuBackward(t)

\* C15: for the same inputs each GPU function behaves as its CPU counterpart:
\* the same row at every time index in the same order, and the same behaviour
\* at the first and last index and on degenerate steps.
C15_GpuIsCpu ==
    /\ pc # "start" => CpuBehaviour = GpuBehaviour
    /\ C15_SameRows

(***************************************************************************)
(* C16  Strict time ordering of the two passes                             *)
(***************************************************************************)
\* a row in the shape of one time index that no pass has computed: not
\* normalised and not flat, so a step that reads it gives another result
Unwritten ==
    IF fn = "classify" THEN [s \in States |-> [b \in Bins |-> Q(b + 1, 1)]]
    ELSE [b \in Bins |-> Q(b + 1, 1)]

\* the causal / smoothed array with every index that is not final yet replaced
FinalCausalOnly ==
    [t \in Times |-> IF t < CausalFilled THEN posterior[t] ELSE Unwritten]
FinalAcausalOnly ==
    [t \in Times |-> IF t \in AcausalFilled THEN acausal_posterior[t]
                     ELSE Unwritten]

\* the loop body of the running forward / backward pass on arrays post, acausal
ForwardBody(post, t) ==
    IF fn = "classify"
    THEN causal_classify_step(continuous_state_transition,
                              discrete_state_transition, likelihood, post, t)
    ELSE causal_decode_step(state_transition, likelihood, post, t)
BackwardBody(post, acausal, t) ==
    IF fn = "classify"
    THEN acausal_classify_step(continuous_state_transition,
                               discrete_state_transition, post, acausal, t)
    ELSE acausal_decode_step(state_transition, post, acausal, t)

\* a step of the forward pass writes index t = (number of final rows) and no
\* other, from final rows only
ForwardInOrder ==
    (pc = "causal" /\ pc' = "causal") =>
        /\ k' = k + 1 /\ k >= 1 /\ k < n_time
        /\ \A t \in Times : t # k => posterior'[t] = posterior[t]
        /\ posterior'[k] = ForwardBody(FinalCausalOnly, k)
        /\ acausal_posterior' = acausal_posterior

\* the backward pass starts when the forward pass has written every index, and
\* a step of it writes index k, just below the final rows, from final rows only
BackwardInOrder ==
    /\ (pc = "causal" /\ pc' = "acausal") =>
           /\ CausalFilled >= n_time
           /\ posterior' = posterior
           /\ n_time > 0 => AcausalFilled' = {n_time - 1}
    /\ (pc = "acausal" /\ pc' = "acausal") =>
           /\ k' = k - 1 /\ k >= 0 /\ AcausalFilled = (k + 1) .. (n_time - 1)
           /\ \A t \in Times : t # k =>
                  acausal_posterior'[t] = acausal_posterior[t]
           /\ acausal_posterior'[k] =
                  BackwardBody(posterior, FinalAcausalOnly, k)
           /\ posterior' = posterior

\* C16: both passes are strictly ordered in time.  posterior[k] is written
\* once, after posterior[k - 1] is final; acausal_posterior[k] is written once,
\* after acausal_posterior[k + 1] is final and after the whole forward pass;
\* neither pass reads an index that is not final.
C16_TimeOrder ==
    [][/\ (pc = "start" /\ pc' = "causal" /\ n_time > 0) =>
              /\ CausalFilled' = 1
              /\ \A t \in Times : t >= 1 =>
                     posterior'[t] = (IF fn = "classify" THEN Zeros2 ELSE Zeros1)
       /\ ForwardInOrder
       /\ BackwardInOrder]_vars

C16_Witness ==
    /\ AcausalDone /\ n_time = MaxTime
    /\ \A t \in Times : posterior[t] # Unwritten /\ acausal_posterior[t] # Unwritten
    /\ \E t \in Times : acausal_posterior[t] # posterior[t]

(***************************************************************************)
(* C17  Frame of the decode calls and of predict                           *)
(***************************************************************************)
\* the fitted attributes predict hands to the two passes, and the likelihood
\* it computes for them, are the arguments of the passes
FittedAttributes == <<initial_conditions, continuous_state_transition,
                      discrete_state_transition, state_transition,
                      is_track_interior>>

\* no step of a pass changes an argument of the call
InputsUnchanged == inputs' = inputs

\* the returned arrays are storage of their own: the smoothed array starts as
\* zeros plus a copy of the last causal row, and filling it leaves the causal
\* array, its argument, as it was
ReturnsFresh ==
    pc \in {"causal", "acausal"} =>
        (acausal_posterior' # acausal_posterior => posterior' = posterior)

\* C17: _causal_classify and _acausal_classify (and the decode pair) modify
\* none of their input arrays, their returned arrays are fresh allocations
\* that alias no input, and predict leaves every fitted attribute unchanged.
C17_Frame ==
    [][InputsUnchanged /\ ReturnsFresh /\ FittedAttributes' = FittedAttributes]_vars

\* the same on series of at least one time step
C17_FrameNonEmpty ==
    [][n_time > 0 =>
           InputsUnchanged /\ ReturnsFresh /\
           FittedAttributes' = FittedAttributes]_vars

(***************************************************************************)
(* C18  Two decode calls on the same fitted arrays                         *)
(*                                                                         *)
(* The first call is the one of the variables above.  The second call,     *)
(* other_call, has a likelihood, posterior arrays and loop position of its *)
(* own and reads initial_conditions and the transition arrays of the first:*)
(* the arrays are attributes of one fitted classifier.                     *)
(***************************************************************************)
\* _causal_decode, posterior[t]: the loop unrolled
RECURSIVE causal_decode_at(_, _, _, _)
causal_decode_at(ic, T, lik, t) ==
    IF t = 0 THEN causal_decode_initial(ic, lik)
    ELSE causal_decode_step(T, lik,
            [u \in {t - 1} |-> Array1(causal_decode_at(ic, T, lik, t - 1))], t)

\* the likelihood rows of the calls that run in pairs
PairRows == {[b \in Bins |-> <<b + 1, 1>>], OneHot(0, One, Zero)}
PairLikelihood(lik) == IF fn = "classify" THEN Broadcast(lik) ELSE lik
PairZeros == IF fn = "classify" THEN Zeros2 ELSE Zeros1

\* the series lengths of the first and of the second call of a pair
PairTimes == 0 .. 2
OtherTimes == {2}

InitPair ==
    /\ is_track_interior = AllInterior
    /\ \/ /\ fn = "classify"
          /\ initial_conditions \in InitialConditions2(AllInterior)
          /\ continuous_state_transition \in ContinuousTransitions(AllInterior)
          /\ discrete_state_transition \in DiscreteTransitions
          /\ state_transition = None
       \/ /\ fn = "decode"
          /\ initial_conditions \in InitialConditions1(AllInterior)
          /\ continuous_state_transition = None
          /\ discrete_state_transition = None
          /\ state_transition \in Kernels(AllInterior)
    /\ \E n \in PairTimes :
        /\ n_time = n
        /\ \E lik \in [0 .. (n - 1) -> RawRows(AllInterior)] :
               likelihood = PairLikelihood(lik)
    /\ posterior = None
    /\ acausal_posterior = None
    /\ k = 0
    /\ pc = "start"
    /\ out_of_bounds = FALSE
    /\ \E n \in OtherTimes :
        \E lik \in [0 .. (n - 1) -> PairRows] :
            other_call = [n_time |-> n,
                          likelihood |-> PairLikelihood(lik),
                          posterior |-> None,
                          acausal_posterior |-> None,
                          k |-> 0,
                          pc |-> "start",
                          fitted_initial_conditions |-> initial_conditions]
    /\ emission = None
    /\ classifier = None
    /\ encoding = None

PairSmall(x) == IF fn = "classify" THEN Small2(x) ELSE Small1(x)

first_call == <<inputs, posterior, acausal_posterior, k, pc, out_of_bounds,
                emission, classifier, encoding>>

\* the second call: _causal_classify / _causal_decode up to the loop
OtherCausalStart ==
    /\ other_call # None /\ other_call.pc = "start"
    /\ other_call' = [other_call EXCEPT
           !.posterior = [t \in 0 .. (other_call.n_time - 1) |->
               IF t > 0 THEN PairZeros
               ELSE IF fn = "classify"
               THEN causal_classify_initial(initial_conditions,
                                            other_call.likelihood)
               ELSE causal_decode_initial(initial_conditions,
                                          other_call.likelihood)],
           !.k = 1,
           !.pc = "causal"]
    /\ UNCHANGED first_call

\* the second call: one pass of the loop of the forward pass
OtherCausalStep ==
    /\ other_call # None /\ other_call.pc = "causal"
    /\ other_call.k < other_call.n_time
    /\ other_call' = [other_call EXCEPT
           !.posterior[other_call.k] =
               IF fn = "classify"
               THEN causal_classify_step(continuous_state_transition,
                                         discrete_state_transition,
                                         other_call.likelihood,
                                         other_call.posterior, other_call.k)
               ELSE causal_decode_step(state_transition, other_call.likelihood,
                                       other_call.posterior, other_call.k),
           !.k = other_call.k + 1]
    /\ UNCHANGED first_call

\* the second call: _acausal_classify / _acausal_decode up to the loop
OtherAcausalStart ==
    /\ other_call # None /\ other_call.pc = "causal"
    /\ other_call.k >= other_call.n_time
    /\ other_call' = [other_call EXCEPT
           !.acausal_posterior =
               IF fn = "classify"
               THEN acausal_classify_initial(other_call.posterior,
                                             other_call.n_time)
               ELSE acausal_decode_initial(other_call.posterior,
                                           other_call.n_time),
           !.k = other_call.n_time - 2,
           !.pc = "acausal"]
    /\ UNCHANGED first_call

\* the second call: one pass of the loop of the backward pass
OtherAcausalStep ==
    /\ other_call # None /\ other_call.pc = "acausal" /\ other_call.k >= 0
    /\ PairSmall(other_call.posterior[other_call.k])
    /\ PairSmall(other_call.acausal_posterior[other_call.k + 1])
    /\ other_call' = [other_call EXCEPT
           !.acausal_posterior[other_call.k] =
               IF fn = "classify"
               THEN acausal_classify_step(continuous_state_transition,
                                          discrete_state_transition,
                                          other_call.posterior,
                                          other_call.acausal_posterior,
                                          other_call.k)
               ELSE acausal_decode_step(state_transition, other_call.posterior,
                                        other_call.acausal_posterior,
                                        other_call.k),
           !.k = other_call.k - 1]
    /\ UNCHANGED first_call

NextPair ==
    \/ CausalClassifyStart
    \/ CausalClassifyStep
    \/ AcausalClassifyStart
    \/ AcausalClassifyStep
    \/ CausalDecodeStart
    \/ CausalDecodeStep
    \/ AcausalDecodeStart
    \/ AcausalDecodeStep
    \/ OtherCausalStart
    \/ OtherCausalStep
    \/ OtherAcausalStart
    \/ OtherAcausalStep

SpecPair == InitPair /\ [][NextPair]_vars

\* row t of the forward pass of a call with likelihood lik running alone on the
\* fitted arrays
AloneForward(lik, t) ==
    IF fn = "classify"
    THEN causal_classify_at(other_call.fitted_initial_conditions,
                            continuous_state_transition,
                            discrete_state_transition, lik, t)
    ELSE causal_decode_at(other_call.fitted_initial_conditions,
                          state_transition, lik, t)

\* the number of final rows of the second call's causal posterior
OtherCausalFilled ==
    IF other_call.pc = "start" THEN 0
    ELSE IF other_call.pc = "causal" THEN other_call.k
    ELSE other_call.n_time

\* C18: under every interleaving of two decode calls that share the fitted
\* arrays, each call computes the posterior rows it computes when it runs
\* alone, and no step of one call writes an array the other reads: the fitted
\* arrays stay as fitted.
C18_Isolation ==
    other_call # None =>
        /\ initial_conditions = other_call.fitted_initial_conditions
        /\ \A t \in Times : (pc # "start" /\ t < CausalFilled) =>
               posterior[t] = AloneForward(likelihood, t)
        /\ \A t \in 0 .. (other_call.n_time - 1) : t < OtherCausalFilled =>
               other_call.posterior[t] = AloneForward(other_call.likelihood, t)

\* the same when both calls have a series of at least one time step
C18_IsolationNonEmpty ==
    n_time > 0 => C18_Isolation

(***************************************************************************)
(* multiunit_likelihood2.py: estimate_multiunit_likelihood2.               *)
(*                                                                         *)
(* Log values are <<x, 1>> for a finite value (x an integer, negative or   *)
(* not), <<-1, 0>> for -inf, <<1, 0>> for +inf, or NaN, as in              *)
(* scaled_likelihood.  Densities, occupancies and rates are powers of two, *)
(* so np.log is an exact integer.                                          *)
(***************************************************************************)
RECURSIVE Log2Int(_)
Log2Int(n) == IF n <= 1 THEN 0 ELSE 1 + Log2Int(n \div 2)

\* np.log on a non-negative value: log(0) = -inf
Log(x) ==
    IF IsNaN(x) THEN NaN
    ELSE IF x = Zero THEN NegInf
    ELSE IF IsInf(x) THEN Inf
    ELSE IF x[2] = 1 THEN <<Log2Int(x[1]), 1>>
    ELSE <<0 - Log2Int(x[2]), 1>>

\* a + b on log values: -inf + inf is NaN
LogAdd(a, b) ==
    IF IsNaN(a) \/ IsNaN(b) THEN NaN
    ELSE IF a[2] = 0 /\ b[2] = 0 THEN (IF a = b THEN a ELSE NaN)
    ELSE IF a[2] = 0 THEN a
    ELSE IF b[2] = 0 THEN b
    ELSE <<a[1] + b[1], 1>>

\* -a on a log value
LogNeg(a) ==
    IF IsNaN(a) THEN NaN ELSE <<0 - a[1], a[2]>>

\* the largest finite float, in the units of the log values
FloatMax == <<1000, 1>>

\* np.nan_to_num: NaN becomes 0, +inf and -inf the largest and the most
\* negative finite float
nan_to_num(v) ==
    IF IsNaN(v) THEN <<0, 1>>
    ELSE IF v = Inf THEN FloatMax
    ELSE IF v = NegInf THEN LogNeg(FloatMax)
    ELSE v

\* estimate_log_intensity: np.log(mean_rate) + np.log(density) - np.log(occupancy)
estimate_log_intensity(density, occupancy, mean_rate) ==
    LogAdd(LogAdd(Log(mean_rate), Log(density)), LogNeg(Log(occupancy)))

\* the electrodes (channels) of the recording
Electrodes == 0 .. 1
NElectrodes == Cardinality(Electrodes)

\* the marks of one electrode in one time bin: all NaN (no spike), or the
\* mark features of a spike, close to the encoding marks or far from them
NoSpike == "nan"
Marks == {"near", "far"}

\* the encoding spikes of an electrode, by their row in encoding_marks
EncodingSpikes == 0 .. 1

\* mark_distance[d, j] * position_distance[j, b] / n_encoding_spikes for a
\* decoding spike d with the given mark and the encoding spike j: a near mark
\* is close to both encoding spikes, a far mark to encoding spike 0 alone,
\* which was fired at bin 0
MarkPositionTerm(mark, j) ==
    IF mark = "near" THEN [b \in Bins |-> Q(1, 4)]
    ELSE [b \in Bins |-> IF j = 0 /\ b = 0 THEN Q(1, 4) ELSE Zero]

\* mark_distance @ position_distance / n_encoding_spikes for one decoding
\* spike, a row over the bins, with mark_distance set to 0.0 in the columns
\* zeroed (set_diag_zero): a near mark has density 1/2 at every bin, a far
\* mark has density 1/4 at bin 0 and 0 away from it
JointMarkDensity(mark, zeroed) ==
    [b \in Bins |->
        SumOver(EncodingSpikes \ zeroed,
                [j \in EncodingSpikes \ zeroed |-> MarkPositionTerm(mark, j)[b]])]

\* occupancy over the bins: positive, or zero at bin 1
Occupancies == {[b \in Bins |-> One], [b \in Bins |-> IF b = 1 THEN Zero ELSE One]}

\* mean_rates, by electrode
MeanRate(e) == <<Pow2(e), 1>>

\* the row estimate_log_joint_mark_intensity returns for one decoding spike
estimate_log_joint_mark_intensity(mark, zeroed, occupancy, mean_rate) ==
    LET density == JointMarkDensity(mark, zeroed)
    IN [b \in Bins |->
           estimate_log_intensity(density[b], occupancy[b], mean_rate)]

\* as emission_baseline, without the ground process term
emission_baseline_zero(em, b) == <<0, 1>>

\* -time_bin_size * summed_ground_process_intensity * ones((n_time, 1)) at bin
\* b, or * zeros((n_time, 1)) under ignore_no_spike
emission_baseline(em, b) ==
    IF em.ignore_no_spike THEN <<0, 1>>
    ELSE <<0 - (em.time_bin_size * em.summed_ground_process_intensity[b]), 1>>

\* as mask_exterior, writing 0 at the exterior bins
mask_exterior_zero(log_likelihood, mask) ==
    [t \in DOMAIN log_likelihood |-> [b \in Bins |->
        IF mask[b] THEN log_likelihood[t][b] ELSE <<0, 1>>]]

\* log_likelihood[:, ~is_track_interior] = np.nan
mask_exterior(log_likelihood, mask) ==
    [t \in DOMAIN log_likelihood |-> [b \in Bins |->
        IF mask[b] THEN log_likelihood[t][b] ELSE NaN]]

\* the series lengths of the likelihood calls
EmissionTimes == 0 .. 2

\* block_size: None, or an integer held as <<n>>
BlockSizes == {None, <<1>>, <<100>>}

decode_call == <<inputs, posterior, acausal_posterior, k, pc, out_of_bounds,
                 other_call, classifier, encoding>>

InitLikelihood ==
    /\ fn = "likelihood"
    /\ n_time = 0
    /\ is_track_interior = AllInterior
    /\ initial_conditions = None
    /\ continuous_state_transition = None
    /\ discrete_state_transition = None
    /\ state_transition = None
    /\ likelihood = None
    /\ posterior = None
    /\ acausal_posterior = None
    /\ k = 0
    /\ pc = "idle"
    /\ out_of_bounds = FALSE
    /\ other_call = None
    /\ classifier = None
    /\ encoding = None
    /\ \E n \in EmissionTimes, mask \in Masks, occ \in Occupancies,
          tbs \in 1 .. 2, ignore \in BOOLEAN, bs \in BlockSizes,
          diag \in BOOLEAN :
        \E mu \in [0 .. (n - 1) -> [Electrodes -> Marks \cup {NoSpike}]] :
            emission = [n_time |-> n,
                        multiunits |-> mu,
                        occupancy |-> occ,
                        summed_ground_process_intensity |-> [b \in Bins |-> b + 1],
                        is_track_interior |-> mask,
                        time_bin_size |-> tbs,
                        ignore_no_spike |-> ignore,
                        block_size |-> bs,
                        set_diag_zero |-> diag,
                        log_likelihood |-> None,
                        electrode |-> 0,
                        pc |-> "start"]

\* is_spike = np.any(~np.isnan(multiunit), axis=1) of electrode e
IsSpike(em, e) == {t \in DOMAIN em.multiunits : em.multiunits[t][e] # NoSpike}

\* the row of the spike of electrode e in time bin t within its block of
\* decoding_marks[block_inds], blocks of block_size rows
BlockRow(em, e, t, block_size) ==
    Cardinality({u \in IsSpike(em, e) : u < t}) % block_size

\* the columns of mark_distance that set_diag_zero sets to 0.0 for that spike:
\* diag_ind pairs row i of the block with column i
DiagZeroed(em, e, t, block_size) ==
    IF em.set_diag_zero THEN {BlockRow(em, e, t, block_size)} ELSE {}

\* log_joint_mark_intensity[row of the spike of electrode e in time bin t]
LogJointMarkIntensity(em, t, e, block_size) ==
    estimate_log_joint_mark_intensity(
        em.multiunits[t][e], DiagZeroed(em, e, t, block_size),
        em.occupancy, MeanRate(e))

\* the row += adds for the spike of electrode e in time bin t
SpikeContribution(em, t, e, block_size) ==
    LET row == LogJointMarkIntensity(em, t, e, block_size)
    IN [b \in Bins |-> nan_to_num(row[b])]

\* up to the loop over the electrodes: the baseline at every time bin
EmissionBaseline ==
    /\ emission # None /\ emission.pc = "start"
    /\ emission' = [emission EXCEPT
           !.log_likelihood = [t \in 0 .. (emission.n_time - 1) |->
               [b \in Bins |-> emission_baseline(emission, b)]],
           !.pc = "electrodes"]
    /\ UNCHANGED decode_call

\* one pass of the loop over the electrodes.  block_size = None becomes the
\* electrode's number of decoding marks, and range(0, n, 0) raises ValueError
EmissionElectrode ==
    /\ emission # None /\ emission.pc = "electrodes"
    /\ emission.electrode < NElectrodes
    /\ LET e == emission.electrode
           is_spike == IsSpike(emission, e)
           n_decoding_marks == Cardinality(is_spike)
           block_size == IF emission.block_size = None
                         THEN <<n_decoding_marks>> ELSE emission.block_size
       IN IF block_size[1] = 0
          THEN emission' = [emission EXCEPT !.block_size = block_size,
                                            !.pc = "raised"]
          ELSE emission' = [emission EXCEPT
                   !.block_size = block_size,
                   !.log_likelihood = [t \in DOMAIN emission.log_likelihood |->
                       [b \in Bins |->
                           IF t \in is_spike /\ emission.is_track_interior[b]
                           THEN LogAdd(emission.log_likelihood[t][b],
                                       SpikeContribution(emission, t, e,
                                                         block_size[1])[b])
                           ELSE emission.log_likelihood[t][b]]],
                   !.electrode = e + 1]
    /\ UNCHANGED decode_call

\* after the loop: the exterior columns, and return
EmissionReturn ==
    /\ emission # None /\ emission.pc = "electrodes"
    /\ emission.electrode = NElectrodes
    /\ emission' = [emission EXCEPT
           !.log_likelihood = mask_exterior(emission.log_likelihood,
                                            emission.is_track_interior),
           !.pc = "returned"]
    /\ UNCHANGED decode_call

NextLikelihood ==
    \/ EmissionBaseline
    \/ EmissionElectrode
    \/ EmissionReturn

SpecLikelihood == InitLikelihood /\ [][NextLikelihood]_vars

(***************************************************************************)
(* C19  Baseline and spike contributions of the log-likelihood             *)
(***************************************************************************)
\* the sum over the electrodes with a spike in time bin t of f[e][b], added
\* to x in the order of the loop
RECURSIVE AddSpikes(_, _, _, _, _, _)
AddSpikes(em, t, b, f, x, e) ==
    IF e = NElectrodes THEN x
    ELSE AddSpikes(em, t, b, f,
                   IF t \in IsSpike(em, e) THEN LogAdd(x, f[e][b]) ELSE x,
                   e + 1)

\* every time bin holds the baseline before the first channel contribution
BaselineFirst ==
    (emission.pc = "electrodes" /\ emission.electrode = 0) =>
        \A t \in DOMAIN emission.log_likelihood : \A b \in Bins :
            emission.log_likelihood[t][b] =
                <<0 - (emission.time_bin_size *
                       emission.summed_ground_process_intensity[b]), 1>>

\* the log joint mark intensity of the spike of each electrode in time bin t
LogIntensities(t) ==
    [e \in Electrodes |->
        IF t \in IsSpike(emission, e)
        THEN LogJointMarkIntensity(emission, t, e, emission.block_size[1])
        ELSE [b \in Bins |-> <<0, 1>>]]

\* C19 as stated: with ignore_no_spike false, every time bin starts at
\* -time_bin_size * summed_ground_process_intensity[b]; in the result a time
\* bin without a spike holds that baseline at every interior bin and a time bin
\* with spikes the baseline plus the log joint mark intensity of each spike.
C19_BaselinePlusIntensity ==
    (emission # None /\ ~emission.ignore_no_spike) =>
        /\ BaselineFirst
        /\ emission.pc = "returned" =>
               \A t \in DOMAIN emission.log_likelihood : \A b \in Bins :
                   emission.is_track_interior[b] =>
                       emission.log_likelihood[t][b] =
                           AddSpikes(emission, t, b, LogIntensities(t),
                                     <<0 - (emission.time_bin_size *
                                            emission.summed_ground_process_intensity[b]), 1>>,
                                     0)

\* C19 amended: the same, where the contribution of a spike is its log joint
\* mark intensity after np.nan_to_num (NaN counts as 0, an infinite value as
\* the finite float of largest magnitude and the same sign).
C19_BaselinePlusFiniteIntensity ==
    (emission # None /\ ~emission.ignore_no_spike) =>
        /\ BaselineFirst
        /\ emission.pc = "returned" =>
               \A t \in DOMAIN emission.log_likelihood : \A b \in Bins :
                   emission.is_track_interior[b] =>
                       emission.log_likelihood[t][b] =
                           AddSpikes(emission, t, b,
                                     [e \in Electrodes |-> [c \in Bins |->
                                         nan_to_num(LogIntensities(t)[e][c])]],
                                     <<0 - (emission.time_bin_size *
                                            emission.summed_ground_process_intensity[b]), 1>>,
                                     0)

\* a returned likelihood with a silent time bin, a time bin with a spike on
\* every electrode, and a spike whose log intensity is not finite
C19_Witness ==
    /\ emission # None /\ ~emission.ignore_no_spike
    /\ emission.pc = "returned"
    /\ \E t \in DOMAIN emission.multiunits :
           \A e \in Electrodes : t \notin IsSpike(emission, e)
    /\ \E t \in DOMAIN emission.multiunits :
           /\ \A e \in Electrodes : t \in IsSpike(emission, e)
           /\ \E e \in Electrodes, b \in Bins :
                  /\ emission.is_track_interior[b]
                  /\ LogIntensities(t)[e][b][2] = 0

(***************************************************************************)
(* C20  Exterior bins of the log-likelihood                                *)
(***************************************************************************)
\* C20: in the returned array every entry at an exterior bin is NaN at every
\* time bin, and no pass of the loop over the channels changes an entry of
\* an exterior column.
C20_ExteriorIsNaN ==
    [][(emission # None /\ emission' # None) =>
          /\ emission'.pc = "returned" =>
                 \A t \in DOMAIN emission'.log_likelihood : \A b \in Bins :
                     ~emission'.is_track_interior[b] =>
                         IsNaN(emission'.log_likelihood[t][b])
          /\ (emission.pc = "electrodes" /\ emission'.pc # "returned") =>
                 \A t \in DOMAIN emission.log_likelihood : \A b \in Bins :
                     ~emission.is_track_interior[b] =>
                         emission'.log_likelihood[t][b] =
                             emission.log_likelihood[t][b]]_vars

\* a returned likelihood on a track with an exterior bin, with spikes
C20_Witness ==
    /\ emission # None /\ emission.pc = "returned"
    /\ emission.n_time >= 2
    /\ \E b \in Bins : ~emission.is_track_interior[b]
    /\ \A t \in DOMAIN emission.multiunits : \E e \in Electrodes :
           t \in IsSpike(emission, e)
    /\ \A t \in DOMAIN emission.log_likelihood : \A b \in Bins :
           IsNaN(emission.log_likelihood[t][b]) <=> ~emission.is_track_interior[b]

(***************************************************************************)
(* C21  Blocks of decoding spikes                                          *)
(***************************************************************************)
\* a block that holds all the decoding spikes of a channel: the row of a spike
\* in the block is its row in decoding_marks
OneBlock == emission.n_time + 1

\* the array of an evaluation of the same call that takes all the decoding
\* spikes of every channel in one block
UnblockedLikelihood ==
    mask_exterior(
        [t \in 0 .. (emission.n_time - 1) |-> [b \in Bins |->
            IF emission.is_track_interior[b]
            THEN AddSpikes(emission, t, b,
                     [e \in Electrodes |->
                         IF t \in IsSpike(emission, e)
                         THEN SpikeContribution(emission, t, e, OneBlock)
                         ELSE [c \in Bins |-> <<0, 1>>]],
                     emission_baseline(emission, b), 0)
            ELSE emission_baseline(emission, b)]],
        emission.is_track_interior)

\* the call completes without error
C21_Completes == emission # None => emission.pc # "raised"

\* the returned array is the one of the evaluation in one block
C21_SameAsUnblocked ==
    (emission # None /\ emission.pc = "returned") =>
        emission.log_likelihood = UnblockedLikelihood

\* C21: for every block_size (a positive integer or None), every number of
\* channels and of decoding spikes per channel, zero included, and either
\* value of set_diag_zero, estimate_multiunit_likelihood2 completes without
\* error and returns the array of an evaluation that takes all the decoding
\* spikes of a channel in one block.
C21_BlockingIsNeutral == C21_Completes /\ C21_SameAsUnblocked

\* the same without set_diag_zero, for the calls that return
C21_NeutralWithoutDiagZero ==
    (emission # None /\ ~emission.set_diag_zero) => C21_SameAsUnblocked

(***************************************************************************)
(* C22  Divisors of the two passes                                         *)
(***************************************************************************)
\* the divisor of the forward step t: np.nansum of the product it normalizes,
\* with nothing added to it
ForwardDivisor(t) == StepNanSum(ForwardProduct(t))

\* C22: in the forward and the backward pass every division is against a
\* divisor with machine epsilon added to it, so that for non-negative input
\* no step divides by exactly zero.
C22_NoDivisionByZero ==
    NoNaNInput =>
        \A t \in Times : t < CausalFilled => ForwardDivisor(t) # Zero

(***************************************************************************)
(* Fitting a classifier: _ClassifierBase.fit_initial_conditions,           *)
(* fit_continuous_state_transition, fit_discrete_state_transition and      *)
(* ClusterlessClassifier.fit_multiunits, in the order fit() calls them, on *)
(* a new object or on one fitted before, and the hand-off of predict.      *)
(***************************************************************************)
\* the number of times fit() is called on one object
MaxFits == 2

\* continuous_transition_types of the constructor
ContinuousTransitionTypes ==
    {<<"identity">>, <<"random_walk", "uniform">>, <<"uniform", "identity">>}
DiscreteTransitionTypes == {"strong_diagonal", "identity", "uniform"}
InitialConditionsTypes == {"uniform", "uniform_on_track"}

\* discrete_transition_diag of the constructor, and the one handed to
\* fit_discrete_state_transition
ConstructorDiags == {Q(3, 4), Q(7, 8)}
ArgumentDiags == {Q(1, 2)}

\* 'uniform': the same weight on every bin
uniform == [b \in Bins |-> Q(1, NBins)]

\* initial_conditions[self.initial_conditions_type]()
initial_conditions_of(type, mask) ==
    IF type = "uniform" THEN uniform ELSE UniformOnTrack(mask)

\* transitions[transition_type]()
transitions_of(type, mask) ==
    IF type = "random_walk" THEN DriftKernel
    ELSE IF type = "uniform" THEN UniformKernel(mask)
    ELSE IdentityKernel(mask)

\* strong_diagonal_discrete(n_states, diag), identity_discrete(n_states),
\* uniform_discrete(n_states)
strong_diagonal_discrete(n_states, diag) ==
    [i \in 0 .. (n_states - 1) |-> [j \in 0 .. (n_states - 1) |->
        IF i = j THEN diag
        ELSE Div(Q(diag[2] - diag[1], diag[2]), <<n_states - 1, 1>>)]]
identity_discrete(n_states) ==
    [i \in 0 .. (n_states - 1) |-> [j \in 0 .. (n_states - 1) |->
        IF i = j THEN One ELSE Zero]]
uniform_discrete(n_states) ==
    [i \in 0 .. (n_states - 1) |-> [j \in 0 .. (n_states - 1) |->
        Q(1, n_states)]]

\* __init__: the parameters are stored, no fitted attribute exists yet
new_classifier(types, discrete_type, ic_type, diag) ==
    [continuous_transition_types |-> types,
     discrete_transition_type |-> discrete_type,
     initial_conditions_type |-> ic_type,
     discrete_transition_diag |-> diag,
     is_track_interior_ |-> None,
     initial_conditions_ |-> None,
     continuous_state_transition_ |-> None,
     discrete_state_transition_ |-> None,
     multiunit_is_track_interior |-> None,
     position_interior |-> None,
     is_track_interior |-> None,
     discrete_transition_diag_argument |-> None,
     n_states |-> 0,
     n_fits |-> 0,
     pc |-> "new"]

\* if is_track_interior is None:
\*     self.is_track_interior_ = get_track_interior(position, self.edges_)
\* and nothing otherwise
set_track_interior(self) ==
    IF self.is_track_interior = None
    THEN [self EXCEPT !.is_track_interior_ = self.position_interior]
    ELSE self

\* reading self.is_track_interior_ raises AttributeError while no call has
\* assigned it
AttributeError(self) == self.is_track_interior_ = None

fit_initial_conditions(self) ==
    LET s1 == set_track_interior(self)
        n_states == Len(s1.continuous_transition_types)
        ic == initial_conditions_of(s1.initial_conditions_type,
                                    s1.is_track_interior_)
    IN IF AttributeError(s1) THEN [s1 EXCEPT !.pc = "raised"]
       ELSE [s1 EXCEPT
                !.initial_conditions_ =
                    [s \in 0 .. (n_states - 1) |->
                        [b \in Bins |-> Div(ic[b], <<n_states, 1>>)]],
                !.pc = "fit_continuous_state_transition"]

\* np.stack([transitions[transition_type]() for transition_type in
\*           self.continuous_transition_types], axis=0)
fit_continuous_state_transition(self) ==
    LET s1 == set_track_interior(self)
        types == s1.continuous_transition_types
    IN IF AttributeError(s1) THEN [s1 EXCEPT !.pc = "raised"]
       ELSE [s1 EXCEPT
                !.continuous_state_transition_ =
                    [i \in 0 .. (Len(types) - 1) |->
                        transitions_of(types[i + 1], s1.is_track_interior_)],
                !.pc = "fit_discrete_state_transition"]

\* the local discrete_transition_diag takes the constructor's value when the
\* argument is None; the partial of 'strong_diagonal' is built from
\* self.discrete_transition_diag
fit_discrete_state_transition(self, discrete_transition_diag) ==
    LET n_states == Len(self.continuous_transition_types)
        type == self.discrete_transition_type
    IN [self EXCEPT
           !.discrete_transition_diag_argument = discrete_transition_diag,
           !.discrete_state_transition_ =
               IF type = "strong_diagonal"
               THEN strong_diagonal_discrete(n_states,
                                             self.discrete_transition_diag)
               ELSE IF type = "identity" THEN identity_discrete(n_states)
               ELSE uniform_discrete(n_states)]

\* the mask handed to fit_multiunit_likelihood
fit_multiunits(self) ==
    LET s1 == set_track_interior(self)
    IN IF AttributeError(s1) THEN [s1 EXCEPT !.pc = "raised"]
       ELSE [s1 EXCEPT
                !.multiunit_is_track_interior = s1.is_track_interior_,
                !.pc = "fitted"]

\* the state of the decode calls, which fitting leaves alone
not_fitting == <<inputs, posterior, acausal_posterior, k, pc, out_of_bounds,
                 other_call, emission, encoding>>

InitFit ==
    /\ fn = "fit"
    /\ n_time = 0
    /\ is_track_interior = AllInterior
    /\ initial_conditions = None
    /\ continuous_state_transition = None
    /\ discrete_state_transition = None
    /\ state_transition = None
    /\ likelihood = None
    /\ posterior = None
    /\ acausal_posterior = None
    /\ k = 0
    /\ pc = "idle"
    /\ out_of_bounds = FALSE
    /\ other_call = None
    /\ emission = None
    /\ encoding = None
    /\ \E types \in ContinuousTransitionTypes,
          discrete_type \in DiscreteTransitionTypes,
          ic_type \in InitialConditionsTypes, diag \in ConstructorDiags :
        classifier = new_classifier(types, discrete_type, ic_type, diag)

\* fit(position, multiunits, is_training, is_track_interior) is called
Fit ==
    /\ classifier # None
    /\ classifier.pc \in {"new", "fitted", "predicted"}
    /\ classifier.n_fits < MaxFits
    /\ \E position_interior \in Masks, mask \in Masks \cup {None} :
        classifier' = [classifier EXCEPT
                          !.position_interior = position_interior,
                          !.is_track_interior = mask,
                          !.n_fits = @ + 1,
                          !.pc = "fit_initial_conditions"]
    /\ UNCHANGED not_fitting

FitInitialConditions ==
    /\ classifier # None
    /\ classifier.pc = "fit_initial_conditions"
    /\ classifier' = fit_initial_conditions(classifier)
    /\ UNCHANGED not_fitting

FitContinuousStateTransition ==
    /\ classifier # None
    /\ classifier.pc = "fit_continuous_state_transition"
    /\ classifier' = fit_continuous_state_transition(classifier)
    /\ UNCHANGED not_fitting

\* fit() calls fit_discrete_state_transition() without an argument
FitDiscreteStateTransition ==
    /\ classifier # None
    /\ classifier.pc = "fit_discrete_state_transition"
    /\ classifier' = [fit_discrete_state_transition(classifier, None)
                         EXCEPT !.pc = "fit_multiunits"]
    /\ UNCHANGED not_fitting

FitMultiunits ==
    /\ classifier # None
    /\ classifier.pc = "fit_multiunits"
    /\ classifier' = fit_multiunits(classifier)
    /\ UNCHANGED not_fitting

\* fit_discrete_state_transition(d) is called on a fitted classifier
RefitDiscreteStateTransition ==
    /\ classifier # None
    /\ classifier.pc = "fitted"
    /\ classifier.discrete_transition_diag_argument = None
    /\ \E d \in ArgumentDiags :
        classifier' = fit_discrete_state_transition(classifier, d)
    /\ UNCHANGED not_fitting

\* predict: n_states = self.continuous_state_transition_.shape[0], and the
\* fitted arrays are handed to _causal_classify and _acausal_classify
Predict ==
    /\ classifier # None
    /\ classifier.pc = "fitted"
    /\ classifier' = [classifier EXCEPT
                         !.n_states = Cardinality(
                             DOMAIN classifier.continuous_state_transition_),
                         !.pc = "predicted"]
    /\ UNCHANGED not_fitting

NextFit ==
    \/ Fit
    \/ FitInitialConditions
    \/ FitContinuousStateTransition
    \/ FitDiscreteStateTransition
    \/ FitMultiunits
    \/ RefitDiscreteStateTransition
    \/ Predict

SpecFit == InitFit /\ [][NextFit]_vars

(***************************************************************************)
(* C23  Shape of the fitted continuous kernel                              *)
(***************************************************************************)
\* a (n_bins, n_bins) array of numbers
IsBinByBin(x) ==
    /\ DOMAIN x = Bins
    /\ \A b \in Bins :
        /\ DOMAIN x[b] = Bins
        /\ \A b2 \in Bins : DOMAIN x[b][b2] = 1 .. 2

\* the regimes of a fitted array, by its first axis
Regimes(x) == 0 .. (Cardinality(DOMAIN x) - 1)

C23_FourDimensional ==
    \A i, j \in Regimes(classifier.continuous_state_transition_) :
        /\ j \in DOMAIN classifier.continuous_state_transition_[i]
        /\ IsBinByBin(classifier.continuous_state_transition_[i][j])

C23_SameRegimes ==
    /\ classifier.n_states =
           Cardinality(DOMAIN classifier.continuous_state_transition_)
    /\ DOMAIN classifier.initial_conditions_ =
           DOMAIN classifier.continuous_state_transition_
    /\ DOMAIN classifier.discrete_state_transition_ =
           DOMAIN classifier.continuous_state_transition_

\* C23: after fit, the continuous kernel that predict hands to the filter is
\* four-dimensional (n_states, n_states, n_bins, n_bins), its entry [i, j] a
\* bin-by-bin matrix, with the n_states of initial_conditions_ and of
\* discrete_state_transition_.
C23_KernelIsFourDimensional ==
    (classifier # None /\ classifier.pc = "predicted") =>
        C23_FourDimensional /\ C23_SameRegimes

\* the part of C23 that the code satisfies
C23_RegimesAgree ==
    (classifier # None /\ classifier.pc = "predicted") => C23_SameRegimes

(***************************************************************************)
(* C25  The track-interior mask of a fit                                   *)
(***************************************************************************)
\* fit() has returned, or predict has run after it
Fitted == classifier # None /\ classifier.pc \in {"fitted", "predicted"}

\* the arrays fit() builds from the mask, built from the mask m
BuiltWith(m) ==
    LET types == classifier.continuous_transition_types
        n_states == Len(types)
        ic == initial_conditions_of(classifier.initial_conditions_type, m)
    IN /\ classifier.is_track_interior_ = m
       /\ classifier.multiunit_is_track_interior = m
       /\ classifier.initial_conditions_ =
              [s \in 0 .. (n_states - 1) |->
                  [b \in Bins |-> Div(ic[b], <<n_states, 1>>)]]
       /\ classifier.continuous_state_transition_ =
              [i \in 0 .. (n_states - 1) |-> transitions_of(types[i + 1], m)]

\* self.is_track_interior_ is never read before it is assigned
C25_DefinedBeforeUse == classifier # None => classifier.pc # "raised"

\* an explicit mask is the one the fit stores and uses
C25_ExplicitMaskUsed ==
    (Fitted /\ classifier.is_track_interior # None) =>
        BuiltWith(classifier.is_track_interior)

\* without a mask, the one derived from the position data is stored and used
C25_DerivedMaskUsed ==
    (Fitted /\ classifier.is_track_interior = None) =>
        BuiltWith(classifier.position_interior)

\* C25: fit(..., is_track_interior=M) with an explicit mask M stores M as
\* is_track_interior_ and builds the initial conditions, the continuous
\* transitions and the emission model with it; only without a mask is it
\* derived from the position data; is_track_interior_ is defined before its
\* first use.
C25_MaskStoredAndUsed ==
    C25_DefinedBeforeUse /\ C25_ExplicitMaskUsed /\ C25_DerivedMaskUsed

(***************************************************************************)
(* C26  The diagonal handed to fit_discrete_state_transition               *)
(***************************************************************************)
\* fit_discrete_state_transition has run on a 'strong_diagonal' classifier
StrongDiagonalFitted ==
    /\ classifier # None
    /\ classifier.discrete_transition_type = "strong_diagonal"
    /\ classifier.discrete_state_transition_ # None

\* the diagonal of the fitted discrete transition matrix is d everywhere
DiagonalIs(d) ==
    \A i \in DOMAIN classifier.discrete_state_transition_ :
        classifier.discrete_state_transition_[i][i] = d

\* without an argument the diagonal is the constructor's
C26_ConstructorDiagWhenNone ==
    (StrongDiagonalFitted
        /\ classifier.discrete_transition_diag_argument = None) =>
        DiagonalIs(classifier.discrete_transition_diag)

\* C26: fit_discrete_state_transition(d) with d not None and the
\* 'strong_diagonal' type builds the discrete transition matrix with d on its
\* diagonal; the constructor's discrete_transition_diag is used only when the
\* argument is None.
C26_ArgumentDiagUsed ==
    /\ (StrongDiagonalFitted
           /\ classifier.discrete_transition_diag_argument # None) =>
           DiagonalIs(classifier.discrete_transition_diag_argument)
    /\ C26_ConstructorDiagWhenNone

(***************************************************************************)
(* classifier_1D: the three regime kernels and the initial conditions it   *)
(* builds from a random-walk kernel, and its call of the filter.           *)
(***************************************************************************)
\* rows of the random_walk argument: an empty bin has a row of zeros
RandomWalkRows ==
    {[b \in Bins |-> Zero], OneHot(0, One, Zero), OneHot(1, One, Zero),
     OneHot(LastBin, One, Zero),
     [b \in Bins |-> IF b = LastBin THEN Zero ELSE Q(1, 2)],
     [b \in Bins |-> IF b = 0 THEN Zero ELSE Q(1, 2)]}

\* is_empty = (random_walk.sum(axis=1) == 0).values
is_empty(random_walk) ==
    [b \in Bins |-> SumOver(Bins, random_walk[b]) = Zero]

\* identity = np.eye(n_bins); identity[is_empty == 0] = 0.0;
\* identity[:, is_empty == 0] = 0.0: the boolean index is_empty == 0 selects
\* the bins that are not empty
identity_1D(random_walk) ==
    LET selected == [b \in Bins |-> is_empty(random_walk)[b] = FALSE]
    IN [b \in Bins |-> [b2 \in Bins |->
           IF selected[b] \/ selected[b2] THEN Zero
           ELSE IF b = b2 THEN One ELSE Zero]]

\* np.ones((n_bins,)); [is_empty] = 0.0; /= np.sum(...); then
\* np.stack([...] * n_states, axis=0)[..., np.newaxis] / n_states
initial_conditions_1D(random_walk, n_states) ==
    LET ones == [b \in Bins |->
                    IF is_empty(random_walk)[b] THEN Zero ELSE One]
        total == SumOver(Bins, ones)
    IN [s \in 0 .. (n_states - 1) |->
           [b \in Bins |-> Div(Div(ones[b], total), <<n_states, 1>>)]]

Init1D ==
    /\ fn = "classifier_1D"
    /\ n_time = 0
    /\ is_track_interior = AllInterior
    /\ initial_conditions = None
    /\ continuous_state_transition = None
    /\ discrete_state_transition = None
    /\ state_transition = None
    /\ likelihood = None
    /\ posterior = None
    /\ acausal_posterior = None
    /\ k = 0
    /\ pc = "idle"
    /\ out_of_bounds = FALSE
    /\ other_call = None
    /\ emission = None
    /\ encoding = None
    /\ \E random_walk \in [Bins -> RandomWalkRows], mask \in Masks :
        classifier = [random_walk |-> random_walk,
                      uniform |-> UniformKernel(mask),
                      state_transition_ |-> None,
                      initial_conditions_ |-> None,
                      pc |-> "start"]

\* lines 481-487
StateTransition1D ==
    /\ classifier # None
    /\ classifier.pc = "start"
    /\ classifier' = [classifier EXCEPT
                         !.state_transition_ =
                             <<classifier.random_walk, classifier.uniform,
                               identity_1D(classifier.random_walk)>>,
                         !.pc = "state_transition"]
    /\ UNCHANGED not_fitting

\* lines 489-497
InitialConditions1D ==
    /\ classifier # None
    /\ classifier.pc = "state_transition"
    /\ classifier' = [classifier EXCEPT
                         !.initial_conditions_ =
                             initial_conditions_1D(
                                 classifier.random_walk,
                                 Len(classifier.state_transition_)),
                         !.pc = "initial_conditions"]
    /\ UNCHANGED not_fitting

\* lines 503-505: _causal_classify takes four arguments and is handed three,
\* which raises TypeError
CausalClassify1D ==
    /\ classifier # None
    /\ classifier.pc = "initial_conditions"
    /\ classifier' = [classifier EXCEPT !.pc = "raised"]
    /\ UNCHANGED not_fitting

Next1D ==
    \/ StateTransition1D
    \/ InitialConditions1D
    \/ CausalClassify1D

Spec1D == Init1D /\ [][Next1D]_vars

(***************************************************************************)
(* C27  Empty bins in classifier_1D                                        *)
(***************************************************************************)
EmptyBins == {b \in Bins : is_empty(classifier.random_walk)[b]}

\* the identity regime's kernel, the third of the stack
Identity1D == classifier.state_transition_[3]

C27_IdentityKernel ==
    (classifier # None /\ classifier.state_transition_ # None) =>
        /\ \A b \in EmptyBins : \A b2 \in Bins :
               Identity1D[b][b2] = Zero /\ Identity1D[b2][b] = Zero
        /\ \A b \in Bins \ EmptyBins : Identity1D[b][b] = One

C27_InitialConditions ==
    (classifier # None /\ classifier.initial_conditions_ # None
        /\ EmptyBins # Bins) =>
        /\ \A s \in DOMAIN classifier.initial_conditions_ :
            /\ \A b \in EmptyBins :
                   classifier.initial_conditions_[s][b] = Zero
            /\ \A b, b2 \in Bins \ EmptyBins :
                   classifier.initial_conditions_[s][b] =
                       classifier.initial_conditions_[s][b2]
        /\ NanSum2(classifier.initial_conditions_) = One

\* C27: in classifier_1D the identity regime's kernel is zero in the rows and
\* columns of the empty bins (those whose random-walk row sums to zero) and 1
\* on the diagonal of every other bin, and the initial conditions are zero
\* on the empty bins, equal on the others and sum to 1 over the whole
\* (regime, bin) array.
C27_EmptyBinsCarryNothing == C27_IdentityKernel /\ C27_InitialConditions

(***************************************************************************)
(* multiunit_likelihood2.py: fit_multiunit_likelihood2, the loop over the  *)
(* channels that accumulates summed_ground_process_intensity.  The kernel  *)
(* density estimates of estimate_position_density are data of the call:    *)
(* positive powers of two or zero at the interior bins, zero at the        *)
(* exterior bins, which the code leaves at the np.zeros they start with.   *)
(***************************************************************************)
\* the time samples of the encoding data
EncodingTimes == 0 .. 1

\* array[gpu_is_track_interior] = density on np.zeros
InteriorOnly(density, mask) ==
    [b \in Bins |-> IF mask[b] THEN density[b] ELSE Zero]

\* estimate_position_density at the bins, for the positions of a channel's
\* spikes: positive everywhere, or underflowing to zero away from bin 1
PositionDensities ==
    {[b \in Bins |-> One], [b \in Bins |-> IF b = 0 THEN One ELSE Q(1, 2)],
     OneHot(1, One, Zero)}

\* estimate_position_density for all the positions: positive at every bin
OccupancyDensities ==
    {[b \in Bins |-> One], [b \in Bins |-> IF b = 0 THEN Q(1, 2) ELSE One]}

\* estimate_intensity: np.exp(estimate_log_intensity(...))
estimate_intensity(density, occupancy, mean_rate) ==
    Exp(estimate_log_intensity(density, occupancy, mean_rate))

\* is_spike = np.any(~np.isnan(multiunit), axis=1), as the set of samples
EncodingIsSpike(enc, e) ==
    {t \in EncodingTimes : enc.multiunits[t][e] # NoSpike}

\* is_spike.mean()
EncodingMeanRate(enc, e) ==
    Q(Cardinality(EncodingIsSpike(enc, e)), Cardinality(EncodingTimes))

InitEncoding ==
    /\ fn = "fit_likelihood"
    /\ n_time = 0
    /\ is_track_interior = AllInterior
    /\ initial_conditions = None
    /\ continuous_state_transition = None
    /\ discrete_state_transition = None
    /\ state_transition = None
    /\ likelihood = None
    /\ posterior = None
    /\ acausal_posterior = None
    /\ k = 0
    /\ pc = "idle"
    /\ out_of_bounds = FALSE
    /\ other_call = None
    /\ emission = None
    /\ classifier = None
    /\ \E mask \in Masks, occ \in OccupancyDensities,
          density \in [Electrodes -> PositionDensities],
          mu \in [EncodingTimes -> [Electrodes -> {"near", NoSpike}]] :
        encoding = [multiunits |-> mu,
                    is_track_interior |-> mask,
                    occupancy |-> InteriorOnly(occ, mask),
                    position_density |-> density,
                    mean_rates |-> <<>>,
                    summed_ground_process_intensity |-> [b \in Bins |-> Zero],
                    marginal_density |-> None,
                    intensity |-> None,
                    electrode |-> 0,
                    pc |-> "electrodes"]

\* one pass of `for multiunit in np.moveaxis(multiunits, -1, 0)`: the name
\* marginal_density is bound only under `if is_spike.sum() > 0`, and read
\* after it in every pass; reading it unbound raises UnboundLocalError
FitElectrode ==
    /\ encoding # None
    /\ encoding.pc = "electrodes"
    /\ encoding.electrode \in Electrodes
    /\ LET e == encoding.electrode
           mean_rate == EncodingMeanRate(encoding, e)
           marginal_density ==
               IF Cardinality(EncodingIsSpike(encoding, e)) > 0
               THEN InteriorOnly(encoding.position_density[e],
                                 encoding.is_track_interior)
               ELSE encoding.marginal_density
           intensity ==
               [b \in Bins |-> estimate_intensity(marginal_density[b],
                                                  encoding.occupancy[b],
                                                  mean_rate)]
       IN IF marginal_density = None
          THEN encoding' = [encoding EXCEPT
                               !.mean_rates = Append(@, mean_rate),
                               !.pc = "raised"]
          ELSE encoding' = [encoding EXCEPT
                               !.mean_rates = Append(@, mean_rate),
                               !.marginal_density = marginal_density,
                               !.intensity = intensity,
                               !.summed_ground_process_intensity =
                                   [b \in Bins |-> Add(@[b], intensity[b])],
                               !.electrode = e + 1]
    /\ UNCHANGED <<inputs, posterior, acausal_posterior, k, pc, out_of_bounds,
                   other_call, emission, classifier>>

\* summed_ground_process_intensity + np.spacing(1), and the return
FitReturn ==
    /\ encoding # None
    /\ encoding.pc = "electrodes"
    /\ encoding.electrode \notin Electrodes
    /\ encoding' = [encoding EXCEPT
                       !.summed_ground_process_intensity =
                           [b \in Bins |-> Add(@[b], Eps)],
                       !.pc = "returned"]
    /\ UNCHANGED <<inputs, posterior, acausal_posterior, k, pc, out_of_bounds,
                   other_call, emission, classifier>>

NextEncoding ==
    \/ FitElectrode
    \/ FitReturn

SpecEncoding == InitEncoding /\ [][NextEncoding]_vars

(***************************************************************************)
(* C24  A channel without a spike in the encoding data                     *)
(***************************************************************************)
\* the channel of the last pass of the loop that ran to its end
LastElectrode == encoding.electrode - 1

\* that channel has no spike in the encoding data
LastWasSilent ==
    /\ encoding # None
    /\ encoding.pc = "electrodes"
    /\ LastElectrode \in Electrodes
    /\ EncodingIsSpike(encoding, LastElectrode) = {}

\* a channel without a spike has mean rate 0 and adds exactly 0 at every
\* interior bin, for the passes that run to their end
C24_SilentAddsNothing ==
    LastWasSilent =>
        /\ encoding.mean_rates[LastElectrode + 1] = Zero
        /\ \A b \in Bins : encoding.is_track_interior[b] =>
               encoding.intensity[b] = Zero

\* the fit does not raise
C24_FitCompletes == encoding # None => encoding.pc # "raised"

\* C24: in fit_multiunit_likelihood2 a channel with no spike in the encoding
\* data gets mean rate 0, contributes exactly 0 to
\* summed_ground_process_intensity at every interior bin, and the fit
\* completes without error wherever the channel sits in the channel order,
\* the first place included.
C24_SilentChannel == C24_SilentAddsNothing /\ C24_FitCompletes

(***************************************************************************)
(* C28  Support of the posteriors                                          *)
(***************************************************************************)
\* the row a degenerate step leaves: its product sums to zero, so every
\* entry is 0 / 0 or NaN / 0
RowIsNaN(x) == \A e \in EntryIndex : IsNaN(Entries(x)[e])

\* the entries of row x that are zero are zero in row y
SupportWithin(x, y) ==
    \A e \in EntryIndex : Entries(x)[e] = Zero => Entries(y)[e] = Zero

\* C28: on a run without a degenerate step, the causal posterior is zero at
\* every (time, regime, bin) where the likelihood is zero, and the acausal
\* posterior is zero wherever the causal posterior is zero.
C28_SupportNeverEnlarged ==
    /\ HasFilter =>
           \A t \in Times : (t < CausalFilled /\ ~RowIsNaN(posterior[t])) =>
               SupportWithin(likelihood[t], posterior[t])
    /\ \A t \in AcausalFilled : ~RowIsNaN(acausal_posterior[t]) =>
           SupportWithin(posterior[t], acausal_posterior[t])

\* the smoothing weights of the backward step t of a classify call
BackwardWeights(t) ==
    LET prior == Array2(acausal_classify_prior(continuous_state_transition,
                            discrete_state_transition, posterior[t]))
        ratio == Array2(acausal_classify_ratio(acausal_posterior[t + 1],
                                               prior))
    IN acausal_classify_weights(continuous_state_transition,
                                discrete_state_transition, ratio)

\* a finished run of the filter and the smoother over two regimes with no
\* NaN row, in which the likelihood rules out an entry at step 1 that the
\* filter and the smoother leave at zero while the smoothing weights of the
\* step are positive there
C28_Witness ==
    /\ HasFilter /\ AcausalDone /\ n_time >= 2 /\ fn = "classify"
    /\ \A t \in Times :
           ~RowIsNaN(posterior[t]) /\ ~RowIsNaN(acausal_posterior[t])
    /\ \E e \in EntryIndex :
        /\ Entries(likelihood[0])[e] = Zero
        /\ Entries(initial_conditions)[e] # Zero
        /\ Entries(posterior[0])[e] = Zero
        /\ Entries(acausal_posterior[0])[e] = Zero
        /\ Entries(BackwardWeights(0))[e] # Zero

====
